---- MODULE Spec2Model ----
(***************************************************************************)
(* Model of the order core of the Angular lab application:                 *)
(*   - OrderService (src/src/app/core/services/order.service.ts): the      *)
(*     signal state, its operations and the responses that are applied to  *)
(*     it, together with the order status transition table;                *)
(*   - calculateOrderTotals, evaluated in IEEE-754 double arithmetic as    *)
(*     JavaScript evaluates it;                                            *)
(*   - OrderListComponent: loading, auto-refresh and the view state;       *)
(*   - OrderService.pollOrderStatus;                                       *)
(*   - UserService: validatePassword, and the session (current user,      *)
(*     token, localStorage) under login, register, updateProfile,          *)
(*     deactivateAccount and logout.                                       *)
(* Specifications: Spec (every operation, requests in flight together),    *)
(* SpecSerial (Spec for a caller making one request at a time),            *)
(* SpecStatus (the status operations of Spec, requests in flight           *)
(* together), SpecRace (updateOrderStatus calls that do not wait),         *)
(* SpecTotals and SpecTotalsAny (calculateOrderTotals on its own),         *)
(* SpecCreated (SpecSerial over a backend that starts without orders),     *)
(* SpecMachine (the transition check on its own, from every status),       *)
(* SpecErrors (SpecSerial with every error response), SpecList            *)
(* (OrderListComponent) and SpecListFair (with responses that arrive),     *)
(* SpecPoll (pollOrderStatus), SpecPassword (validatePassword) and         *)
(* SpecUser (the session of UserService).                                  *)
(***************************************************************************)
EXTENDS Integers, Sequences, FiniteSets, Bags, TLC

(***************************************************************************)
(* JavaScript numbers.  A number is an IEEE-754 double: sign, 53-bit       *)
(* mantissa and exponent, value = (-1)^neg * m * 2^e.  The mantissa is a   *)
(* natural number held as a little-endian sequence of limbs (base 2^14),   *)
(* without leading zero limbs; zero is the empty sequence.  Every          *)
(* arithmetic operation computes the exact result and rounds it to the     *)
(* nearest double, ties to even.  Subnormals, infinities and NaN are       *)
(* outside the range of values the model feeds in.  Zero has a sign, as in  *)
(* JavaScript: -0 is [neg |-> TRUE, m |-> <<>>, e |-> 0].                   *)
(***************************************************************************)
LimbBits == 14
Base == 16384
MantBits == 53

Pow2(n) == 2 ^ n

RECURSIVE IntBitLen(_)
IntBitLen(n) == IF n = 0 THEN 0 ELSE 1 + IntBitLen(n \div 2)

Abs(n) == IF n < 0 THEN -n ELSE n
Min(a, b) == IF a < b THEN a ELSE b

RECURSIVE BNorm(_)
BNorm(a) ==
  IF a = <<>> THEN <<>>
  ELSE IF a[Len(a)] = 0 THEN BNorm(SubSeq(a, 1, Len(a) - 1)) ELSE a

RECURSIVE BFromInt(_)
BFromInt(n) == IF n = 0 THEN <<>> ELSE <<n % Base>> \o BFromInt(n \div Base)

RECURSIVE BToInt(_)
BToInt(a) == IF a = <<>> THEN 0 ELSE Head(a) + Base * BToInt(Tail(a))

Limb(a, i) == IF i <= Len(a) THEN a[i] ELSE 0

RECURSIVE BAddFrom(_, _, _, _)
BAddFrom(a, b, i, c) ==
  IF i > Len(a) /\ i > Len(b)
  THEN (IF c = 0 THEN <<>> ELSE <<c>>)
  ELSE LET s == Limb(a, i) + Limb(b, i) + c
       IN  <<s % Base>> \o BAddFrom(a, b, i + 1, s \div Base)

BAdd(a, b) == BNorm(BAddFrom(a, b, 1, 0))

RECURSIVE BSubFrom(_, _, _, _)
BSubFrom(a, b, i, borrow) ==
  IF i > Len(a) THEN <<>>
  ELSE LET d == Limb(a, i) - Limb(b, i) - borrow
       IN  <<(d + Base) % Base>> \o BSubFrom(a, b, i + 1, IF d < 0 THEN 1 ELSE 0)

\* a - b for a >= b
BSub(a, b) == BNorm(BSubFrom(a, b, 1, 0))

RECURSIVE BMulSmallFrom(_, _, _, _)
BMulSmallFrom(a, k, i, c) ==
  IF i > Len(a)
  THEN (IF c = 0 THEN <<>> ELSE <<c>>)
  ELSE LET p == a[i] * k + c
       IN  <<p % Base>> \o BMulSmallFrom(a, k, i + 1, p \div Base)

\* a * k for 0 <= k < Base
BMulSmall(a, k) == BNorm(BMulSmallFrom(a, k, 1, 0))

\* limb k of the product before carries: the sum of a[i] * b[k + 1 - i]
RECURSIVE Column(_, _, _, _)
Column(a, b, k, i) ==
  IF i > Len(a) \/ i > k THEN 0
  ELSE a[i] * Limb(b, k + 1 - i) + Column(a, b, k, i + 1)

RECURSIVE BMulFrom(_, _, _, _)
BMulFrom(a, b, k, c) ==
  IF k > Len(a) + Len(b) THEN <<>>
  ELSE LET s == Column(a, b, k, 1) + c
       IN  <<s % Base>> \o BMulFrom(a, b, k + 1, s \div Base)

\* a * b for factors of at most four limbs (a mantissa has four)
BMul(a, b) == BNorm(BMulFrom(a, b, 1, 0))

\* quotient and remainder of a by a small d, most significant limb first
RECURSIVE BDivStep(_, _)
BDivStep(a, d) ==
  IF a = <<>> THEN [q |-> <<>>, r |-> 0]
  ELSE LET hi  == BDivStep(Tail(a), d)
           cur == hi.r * Base + Head(a)
       IN  [q |-> <<cur \div d>> \o hi.q, r |-> cur % d]

BDivSmall(a, d) == LET qr == BDivStep(a, d) IN [q |-> BNorm(qr.q), r |-> qr.r]

Zeros(n) == [i \in 1..n |-> 0]

BShl(a, k) ==
  IF a = <<>> THEN <<>>
  ELSE Zeros(k \div LimbBits) \o BMulSmall(a, Pow2(k % LimbBits))

BShr(a, k) ==
  LET drop == k \div LimbBits
  IN  IF drop >= Len(a) THEN <<>>
      ELSE BDivSmall(SubSeq(a, drop + 1, Len(a)), Pow2(k % LimbBits)).q

\* a mod 2^k
BModPow2(a, k) ==
  LET full == k \div LimbBits
  IN  IF full >= Len(a) THEN a
      ELSE BNorm(SubSeq(a, 1, full) \o <<a[full + 1] % Pow2(k % LimbBits)>>)

BBitLen(a) ==
  IF a = <<>> THEN 0 ELSE LimbBits * (Len(a) - 1) + IntBitLen(a[Len(a)])

RECURSIVE BCmpFrom(_, _, _)
BCmpFrom(a, b, i) ==
  IF i = 0 THEN 0
  ELSE IF a[i] > b[i] THEN 1
  ELSE IF a[i] < b[i] THEN -1
  ELSE BCmpFrom(a, b, i - 1)

\* -1, 0, 1 as a < b, a = b, a > b
BCmp(a, b) ==
  IF Len(a) > Len(b) THEN 1
  ELSE IF Len(a) < Len(b) THEN -1
  ELSE BCmpFrom(a, b, Len(a))

BIsOdd(a) == a # <<>> /\ a[1] % 2 = 1

FZero == [neg |-> FALSE, m |-> <<>>, e |-> 0]

\* the double nearest to (-1)^neg * M * 2^E, ties to even
FRound(neg, M, E) ==
  IF M = <<>> THEN [neg |-> neg, m |-> <<>>, e |-> 0]
  ELSE LET L == BBitLen(M) IN
       IF L <= MantBits
       THEN [neg |-> neg, m |-> BShl(M, MantBits - L), e |-> E - (MantBits - L)]
       ELSE LET k    == L - MantBits
                q    == BShr(M, k)
                r    == BModPow2(M, k)
                c    == BCmp(r, BShl(<<1>>, k - 1))
                up   == c > 0 \/ (c = 0 /\ BIsOdd(q))
                q2   == IF up THEN BAdd(q, <<1>>) ELSE q
            IN  IF BBitLen(q2) > MantBits
                THEN [neg |-> neg, m |-> BShr(q2, 1), e |-> E + k + 1]
                ELSE [neg |-> neg, m |-> q2, e |-> E + k]

FFromInt(n) == FRound(n < 0, BFromInt(Abs(n)), 0)

\* JavaScript evaluates the operands of an operator before it applies it
Strict1(Op(_), x) == CHOOSE r \in {Op(a) : a \in {x}} : TRUE
Strict2(Op(_, _), x, y) == CHOOSE r \in {Op(a, b) : a \in {x}, b \in {y}} : TRUE

FNeg(x) == [x EXCEPT !.neg = ~x.neg]

\* x * y
FMul(x, y) ==
  LET Op(a, b) == FRound(a.neg # b.neg, BMul(a.m, b.m), a.e + b.e)
  IN  Strict2(Op, x, y)

\* x + y: a sum of two zeros is -0 only when both are -0, and a sum that
\* cancels is +0
FAdd(x, y) ==
  LET Op(a, b) ==
        IF a.m = <<>> /\ b.m = <<>> THEN [FZero EXCEPT !.neg = a.neg /\ b.neg]
        ELSE IF a.m = <<>> THEN b
        ELSE IF b.m = <<>> THEN a
        ELSE LET e == Min(a.e, b.e)
                 X == BShl(a.m, a.e - e)
                 Y == BShl(b.m, b.e - e)
                 c == BCmp(X, Y)
             IN  IF a.neg = b.neg THEN FRound(a.neg, BAdd(X, Y), e)
                 ELSE IF c = 0 THEN FZero
                 ELSE IF c > 0 THEN FRound(a.neg, BSub(X, Y), e)
                 ELSE FRound(b.neg, BSub(Y, X), e)
  IN  Strict2(Op, x, y)

\* x - y
FSub(x, y) == FAdd(x, FNeg(y))

\* x / d for an integer divisor 0 < d < Base (the code divides by 100 only):
\* the quotient to 55 bits or more, with a sticky bit for the remainder
FDiv(x, d) ==
  LET Op(a) ==
        LET qr == BDivSmall(BShl(a.m, 16), d)
            M  == BAdd(BShl(qr.q, 1), IF qr.r = 0 THEN <<>> ELSE <<1>>)
        IN  FRound(a.neg, M, a.e - 17)
  IN  Strict1(Op, x)

\* x > y: a comparison that leaves the equal case out
FGt(x, y) == LET d == FSub(x, y) IN d.m # <<>> /\ ~d.neg

\* x >= y
FGe(x, y) == LET d == FSub(x, y) IN d.m = <<>> \/ ~d.neg

\* Math.round: the integer nearest to x, halves towards +Infinity; the
\* result keeps the sign of x, so it is -0 for -0.5 <= x <= -0
MathRound(x) ==
  LET Op(a) ==
        IF a.e >= 0 THEN a
        ELSE LET k  == -a.e
                 q  == BShr(a.m, k)
                 r  == BModPow2(a.m, k)
                 c  == BCmp(r, BShl(<<1>>, k - 1))
                 up == IF a.neg THEN c > 0 ELSE c >= 0
             IN  FRound(a.neg, IF up THEN BAdd(q, <<1>>) ELSE q, 0)
  IN  Strict1(Op, x)

(***************************************************************************)
(* Order totals (OrderService.calculateOrderTotals).  An item is           *)
(* [quantity, unitPrice, discount]; quantity and discount are integers and *)
(* unitPrice is held in whole cents c, standing for the number c / 100.    *)
(***************************************************************************)
F100 == FFromInt(100)
F1 == FFromInt(1)

\* the number written as the decimal literal c / 100 (25.00, 9.99, 0.08)
Cents(c) == FDiv(FFromInt(c), 100)

\* a standard shipping cost of 10.00
ShippingCostTen == Cents(1000)

TAX_RATE == Cents(8)
FREE_SHIPPING_THRESHOLD == FFromInt(100)
STANDARD_SHIPPING_COST == Cents(999)

\* a line total that is clamped to 0 when it is negative
ItemTotalClamped(item) ==
  LET t == FMul(FMul(Cents(item.unitPrice), FFromInt(item.quantity)),
                FSub(F1, FDiv(FFromInt(item.discount), 100)))
  IN  IF t.neg THEN FZero ELSE t

\* item.unitPrice * item.quantity * (1 - item.discount / 100)
ItemTotal(item) ==
  FMul(FMul(Cents(item.unitPrice), FFromInt(item.quantity)),
       FSub(F1, FDiv(FFromInt(item.discount), 100)))

\* items.reduce((sum, item) => sum + itemTotal, 0)
RECURSIVE ReduceSubtotal(_, _)
ReduceSubtotal(items, sum) ==
  IF items = <<>> THEN sum
  ELSE ReduceSubtotal(Tail(items), FAdd(sum, ItemTotal(Head(items))))

calculateOrderTotals(items) ==
  LET subtotal == ReduceSubtotal(items, FZero)
      tax      == FDiv(MathRound(FMul(FMul(subtotal, TAX_RATE), F100)), 100)
      shipping == IF FGe(subtotal, FREE_SHIPPING_THRESHOLD)
                  THEN FZero ELSE STANDARD_SHIPPING_COST
      total    == FDiv(MathRound(FMul(FAdd(FAdd(subtotal, tax), shipping), F100)), 100)
  IN  [subtotal |-> subtotal, tax |-> tax, shipping |-> shipping, total |-> total]

(***************************************************************************)
(* Order status and the transition table (order.model.ts).                 *)
(***************************************************************************)
OrderStatus ==
  {"draft", "pending", "confirmed", "processing",
   "shipped", "delivered", "cancelled", "refunded"}

\* the table with a transition that skips pending
TransitionsSkippingPending ==
  [s \in OrderStatus |->
     CASE s = "draft"      -> <<"pending", "confirmed", "cancelled">>
       [] s = "pending"    -> <<"confirmed", "cancelled">>
       [] s = "confirmed"  -> <<"processing", "cancelled">>
       [] s = "processing" -> <<"shipped", "cancelled">>
       [] s = "shipped"    -> <<"delivered">>
       [] s = "delivered"  -> <<"refunded">>
       [] s = "cancelled"  -> <<>>
       [] s = "refunded"   -> <<>>]

ORDER_STATUS_TRANSITIONS ==
  [s \in OrderStatus |->
     CASE s = "draft"      -> <<"pending", "cancelled">>
       [] s = "pending"    -> <<"confirmed", "cancelled">>
       [] s = "confirmed"  -> <<"processing", "cancelled">>
       [] s = "processing" -> <<"shipped", "cancelled">>
       [] s = "shipped"    -> <<"delivered">>
       [] s = "delivered"  -> <<"refunded">>
       [] s = "cancelled"  -> <<>>
       [] s = "refunded"   -> <<>>]

\* Array.prototype.includes
Includes(arr, x) == \E i \in 1..Len(arr) : arr[i] = x

\* a check that lets a cancelled order be reopened
CanTransitionReopen(current, target) ==
  \/ Includes(ORDER_STATUS_TRANSITIONS[current], target)
  \/ (current = "cancelled" /\ target = "draft")

\* ORDER_STATUS_TRANSITIONS[current].includes(target)
CanTransition(current, target) == Includes(ORDER_STATUS_TRANSITIONS[current], target)

(***************************************************************************)
(* Bounds of the model.                                                    *)
(***************************************************************************)
\* orders the server creates (order ids are 1..MaxOrders)
MaxOrders == 1
\* HTTP requests in flight at the same time
MaxInFlight == 2
\* items of an item sequence handed to calculateOrderTotals
MaxItems == 2
\* transition requests made to the status machine on its own
MaxRequests == 8
\* calculateOrderTotals calls made with the same item sequence
\* characters typed after the initial characters of a password
MaxTyped == 4
\* ticks of the timer of a pollOrderStatus subscription
MaxTicks == 12
\* accounts of the backend, and requests of UserService in flight together
MaxUsers == 1
MaxUserFlight == 2
\* orders the backend of OrderListComponent holds (ids 1..MaxListed): the
\* two of mockOrders
MaxListed == 2

OrderIds == 1..MaxOrders
ListedIds == 1..MaxListed

(***************************************************************************)
(* State.                                                                  *)
(***************************************************************************)
VARIABLES
  orders,        \* ordersSignal: the local list, a sequence of [id, status]
  currentOrder,  \* currentOrderSignal: an order or NoOrder (null)
  loading,       \* loadingSignal
  error,         \* errorSignal: a message or Null
  http,          \* HttpClient: the bag of requests in flight and of their responses
  srv,           \* the backend's orders: status per id, "none" before creation;
                 \*   it may hold orders, in any status, when the service starts
  last,          \* the outcome of the last step: a call sent or thrown, an error delivered
  calcItems,     \* argument of a direct calculateOrderTotals call
  calcResult,    \* its result, NoResult before the call
  mStart,        \* status machine on its own: the status it started in,
  mCur,          \*   the status it is in,
  mLen,          \*   the number of transitions applied to it,
  mReq,          \*   the number of requests made to it,
  mLast,         \*   the last request [from, target, ok],
  mPending,      \*   the targets of the accepted requests that wait for a response
  cPhase,        \* OrderListComponent: "created", "active" after ngOnInit,
                 \*   "destroyed" after ngOnDestroy
  autoRefresh,   \*   its input autoRefresh
  refreshOn,     \*   the subscription of setupAutoRefresh receives timer ticks
  cOrders,       \*   its signals orders,
  shared,        \*   (the array orders holds is the array ordersSignal holds)
  cLoading,      \*   isLoading,
  cError,        \*   error,
  selectedOrderId, \* selectedOrderId (0 for null),
  filterStatus,  \*   filterStatus
  sortOrder,     \*   and sortOrder
  pollId,        \* a pollOrderStatus subscription: its order (0 for none),
  pollOn,        \*   it receives timer ticks,
  pollRequests,  \*   the getOrder requests it has made,
  pollEmitted,   \*   the orders it has given to its subscriber,
  pollDone,      \*   how it ended: "no", "complete" or "error"
  pwd,           \* the argument of validatePassword, a sequence of characters,
  pwdTyped,      \*   the characters typed after the initial ones,
  pwdResult,     \*   and the result of the call, NoValidation before it
  currentUser,   \* UserService: currentUserSignal, a user or NoUser (null),
  token,         \*   the value of tokenSubject, a token or Null,
  userLoading,   \*   loadingSignal,
  userError,     \*   errorSignal,
  storage,       \*   localStorage: its items auth_token and user, Null when absent,
  userHttp,      \*   the requests of the service in flight and their responses,
  userLast       \*   the outcome of the last call of the service

vars == <<orders, currentOrder, loading, error, http, srv, last,
          calcItems, calcResult, mStart, mCur, mLen, mReq, mLast, mPending,
          cPhase, autoRefresh, refreshOn, cOrders, shared, cLoading, cError,
          selectedOrderId, filterStatus, sortOrder,
          pollId, pollOn, pollRequests, pollEmitted, pollDone,
          pwd, pwdTyped, pwdResult,
          currentUser, token, userLoading, userError, storage, userHttp, userLast>>

svcVars == <<orders, currentOrder, loading, error, http, srv, last>>
calcVars == <<calcItems, calcResult>>
machineVars == <<mStart, mCur, mLen, mReq, mLast, mPending>>
compVars == <<cPhase, autoRefresh, refreshOn, cOrders, shared, cLoading, cError,
              selectedOrderId, filterStatus, sortOrder>>
viewVars == <<selectedOrderId, filterStatus, sortOrder>>
pollVars == <<pollId, pollOn, pollRequests, pollEmitted, pollDone>>
pwdVars == <<pwd, pwdTyped, pwdResult>>
userVars == <<currentUser, token, userLoading, userError, storage, userHttp, userLast>>

Null == <<>>
NoOrder == [id |-> 0, status |-> "none"]
NoResult == [subtotal |-> Null, tax |-> Null, shipping |-> Null, total |-> Null]
NoData == [items |-> <<>>, totals |-> NoResult]
NoValidation == [valid |-> FALSE, error |-> <<"not called">>]
\* last when the last step was not a call
NoEvent == [ev |-> "none", op |-> "none", id |-> 0, target |-> "none",
            cur |-> "none", sent |-> FALSE, msg |-> Null]

Order(id, status) == [id |-> id, status |-> status]

\* this.ordersSignal().find(o => o.id === orderId), NoOrder for undefined
RECURSIVE Find(_, _)
Find(list, orderId) ==
  IF list = <<>> THEN NoOrder
  ELSE IF Head(list).id = orderId THEN Head(list)
  ELSE Find(Tail(list), orderId)

\* orders.map(o => o.id === orderId ? order : o)
MapReplace(list, orderId, order) ==
  [i \in 1..Len(list) |-> IF list[i].id = orderId THEN order ELSE list[i]]

(***************************************************************************)
(* Inputs of createOrder and addItemToOrder.  A string is held as its      *)
(* length: the code only tests strings for emptiness and length.           *)
(***************************************************************************)
Item(quantity, unitPrice, discount) ==
  [quantity |-> quantity, unitPrice |-> unitPrice, discount |-> discount]

Address(street, city, state, postalCode, country) ==
  [street |-> street, city |-> city, state |-> state,
   postalCode |-> postalCode, country |-> country]

\* validOrderDTO of the service's tests: 25.00 x 2 and 50.00 x 1 at 10% off
ValidItems == <<Item(2, 2500, 0), Item(1, 5000, 10)>>
ValidAddress == Address(11, 6, 2, 5, 2)

ValidDto == [items |-> ValidItems, shippingAddress |-> ValidAddress]

\* the dtos createOrder is called with: the valid one, dtos at the limits of
\* the validation (a price of 0, strings of the shortest accepted lengths),
\* and dtos with one fault or with several
CreateDtos ==
  { ValidDto,
    [items |-> ValidItems, shippingAddress |-> Address(5, 2, 2, 5, 2)],
    [items |-> <<Item(1, 0, 0)>>, shippingAddress |-> ValidAddress],
    [items |-> <<>>, shippingAddress |-> ValidAddress],
    [items |-> <<>>, shippingAddress |-> Address(0, 0, 0, 0, 0)],
    [items |-> <<Item(2, 2500, 0), Item(0, 5000, 10)>>, shippingAddress |-> ValidAddress],
    [items |-> <<Item(-1, 2500, 0)>>, shippingAddress |-> ValidAddress],
    [items |-> <<Item(1, -1, 0)>>, shippingAddress |-> ValidAddress],
    [items |-> <<Item(1, -1, 0), Item(0, 2500, 0)>>, shippingAddress |-> ValidAddress],
    [items |-> <<Item(0, -1, 0)>>, shippingAddress |-> Address(4, 6, 2, 5, 2)],
    [items |-> ValidItems, shippingAddress |-> Address(4, 6, 2, 5, 2)],
    [items |-> ValidItems, shippingAddress |-> Address(0, 6, 2, 5, 2)],
    [items |-> ValidItems, shippingAddress |-> Address(11, 1, 2, 5, 2)],
    [items |-> ValidItems, shippingAddress |-> Address(11, 6, 1, 5, 2)],
    [items |-> ValidItems, shippingAddress |-> Address(11, 6, 2, 4, 2)],
    [items |-> ValidItems, shippingAddress |-> Address(11, 6, 2, 5, 1)] }

AddItemInputs == {Item(1, 2500, 0), Item(0, 2500, 0)}

\* the for loop of createOrder: the error of the first offending item
RECURSIVE ItemsError(_)
ItemsError(items) ==
  IF items = <<>> THEN Null
  ELSE IF Head(items).quantity <= 0 THEN <<"Item quantity must be positive">>
  ELSE IF Head(items).unitPrice < 0 THEN <<"Item price cannot be negative">>
  ELSE ItemsError(Tail(items))

\* a validation that accepts a street of four characters
isValidAddressShortStreet(address) ==
  /\ address.street > 0 /\ address.street >= 4
  /\ address.city > 0 /\ address.city >= 2
  /\ address.state > 0 /\ address.state >= 2
  /\ address.postalCode > 0 /\ address.postalCode >= 5
  /\ address.country > 0 /\ address.country >= 2

isValidAddress(address) ==
  /\ address.street > 0 /\ address.street >= 5
  /\ address.city > 0 /\ address.city >= 2
  /\ address.state > 0 /\ address.state >= 2
  /\ address.postalCode > 0 /\ address.postalCode >= 5
  /\ address.country > 0 /\ address.country >= 2

\* the totals createOrder adds to the request body
DtoTotals == [dto \in CreateDtos |-> calculateOrderTotals(dto.items)]

(***************************************************************************)
(* Calls.  A call and the subscription to the Observable it returns are    *)
(* one step, as in every caller of the service; throwError gives the error *)
(* to the subscriber at once and sends nothing.                            *)
(***************************************************************************)
HasFreeSlot == BagCardinality(http) < MaxInFlight

\* a request; sub names the subscriber that waits for the response when it
\* is one the model follows ("load" and "refresh" of OrderListComponent,
\* "poll" of pollOrderStatus), "none" for a caller of the service
Request(op, id, target, data) ==
  [op |-> op, id |-> id, target |-> target, data |-> data, sub |-> "none",
   phase |-> "request", code |-> 0, emsg |-> Null, event |-> FALSE,
   body |-> <<>>]

\* the requests in flight without those of subscriber sub: unsubscribing
\* from an HttpClient Observable aborts its request
Without(flight, sub) ==
  LET kept == {m \in BagToSet(flight) : m.sub # sub}
  IN  [m \in kept |-> CopiesIn(m, flight)]

Send(op, id, target, data) ==
  http' = http (+) SetToBag({Request(op, id, target, data)})

Sent(op, id, target, cur) ==
  [ev |-> "call", op |-> op, id |-> id, target |-> target, cur |-> cur,
   sent |-> TRUE, msg |-> Null]

\* last after the pipe of an operation has given the error of handleError
\* to the subscriber
Errored(msg) == [NoEvent EXCEPT !.ev = "error", !.msg = msg]

Thrown(op, id, target, cur, msg) ==
  [ev |-> "throw", op |-> op, id |-> id, target |-> target, cur |-> cur,
   sent |-> FALSE, msg |-> msg]

\* orders the backend has created or is about to create
Created == Cardinality({i \in OrderIds : srv[i] # "none"})
CreatesInFlight ==
  LET creates == {m \in BagToSet(http) : m.op = "createOrder" /\ m.phase = "request"}
  IN  BagCardinality([m \in creates |-> CopiesIn(m, http)])

\* the message createOrder rejects the dto with, Null when it accepts it
CreateOrderError(dto) ==
  IF Len(dto.items) = 0 THEN <<"Order must contain at least one item">>
  ELSE IF ItemsError(dto.items) # Null THEN ItemsError(dto.items)
  ELSE IF ~isValidAddress(dto.shippingAddress) THEN <<"Invalid shipping address">>
  ELSE Null

createOrder(dto) ==
  IF CreateOrderError(dto) # Null
  THEN /\ last' = Thrown("createOrder", 0, "none", "none", CreateOrderError(dto))
       /\ UNCHANGED <<orders, currentOrder, loading, error, http, srv>>
  ELSE /\ HasFreeSlot
       /\ Created + CreatesInFlight < MaxOrders
       /\ loading' = TRUE
       /\ error' = Null
       /\ Send("createOrder", 0, "none", [items |-> dto.items, totals |-> DtoTotals[dto]])
       /\ last' = Sent("createOrder", 0, "none", "none")
       /\ UNCHANGED <<orders, currentOrder, srv>>

\* getOrder called and subscribed to by sub, flight being the requests in
\* flight when it is called
getOrderFrom(sub, flight, id) ==
  /\ BagCardinality(flight) < MaxInFlight
  /\ http' = flight (+) SetToBag({[Request("getOrder", id, "none", NoData)
                                    EXCEPT !.sub = sub]})
  /\ last' = Sent("getOrder", id, "none", Find(orders, id).status)
  /\ UNCHANGED <<orders, currentOrder, loading, error, srv>>

getOrder(id) == getOrderFrom("none", http, id)

\* getUserOrders called and subscribed to by sub
getUserOrdersFrom(sub, flight) ==
  /\ BagCardinality(flight) < MaxInFlight
  /\ loading' = TRUE
  /\ http' = flight (+) SetToBag({[Request("getUserOrders", 0, "none", NoData)
                                    EXCEPT !.sub = sub]})
  /\ last' = Sent("getUserOrders", 0, "none", "none")
  /\ UNCHANGED <<orders, currentOrder, error, srv>>

getUserOrders == getUserOrdersFrom("none", http)

\* the validation with a message that leaves out the target
UpdateOrderStatusErrorNoTarget(orderId, newStatus) ==
  LET currentOrderFound == Find(orders, orderId)
  IN  IF currentOrderFound # NoOrder
         /\ ~CanTransition(currentOrderFound.status, newStatus)
      THEN <<"Cannot transition from ", currentOrderFound.status>>
      ELSE Null

\* the client-side validation of updateOrderStatus: the error, Null to go on
UpdateOrderStatusError(orderId, newStatus) ==
  LET currentOrderFound == Find(orders, orderId)
  IN  IF currentOrderFound # NoOrder
         /\ ~CanTransition(currentOrderFound.status, newStatus)
      THEN <<"Cannot transition from ", currentOrderFound.status, " to ", newStatus>>
      ELSE Null

\* updateOrder that also lets an order in pending through
updateOrderAlsoPending(orderId) ==
  LET currentOrderFound == Find(orders, orderId)
  IN  IF currentOrderFound # NoOrder
         /\ currentOrderFound.status \notin {"draft", "pending"}
      THEN /\ last' = Thrown("updateOrder", orderId, "none", currentOrderFound.status,
                             <<"Can only update orders in draft status">>)
           /\ UNCHANGED <<orders, currentOrder, loading, error, http, srv>>
      ELSE /\ HasFreeSlot
           /\ Send("updateOrder", orderId, "none", NoData)
           /\ last' = Sent("updateOrder", orderId, "none", currentOrderFound.status)
           /\ UNCHANGED <<orders, currentOrder, loading, error, srv>>

\* updateOrderStatus as called by `caller` (itself, or cancelOrder) and
\* subscribed to by sub
UpdateOrderStatusSub(sub, caller, orderId, newStatus) ==
  LET cur == Find(orders, orderId).status
      err == UpdateOrderStatusError(orderId, newStatus)
  IN  IF err # Null
      THEN /\ last' = Thrown(caller, orderId, newStatus, cur, err)
           /\ UNCHANGED <<orders, currentOrder, loading, error, http, srv>>
      ELSE /\ HasFreeSlot
           /\ http' = http (+) SetToBag({[Request("updateOrderStatus", orderId, newStatus, NoData)
                                            EXCEPT !.sub = sub]})
           /\ last' = Sent(caller, orderId, newStatus, cur)
           /\ UNCHANGED <<orders, currentOrder, loading, error, srv>>

UpdateOrderStatusFrom(caller, orderId, newStatus) ==
  UpdateOrderStatusSub("none", caller, orderId, newStatus)

updateOrderStatus(orderId, newStatus) ==
  UpdateOrderStatusFrom("updateOrderStatus", orderId, newStatus)

updateOrder(orderId) ==
  LET currentOrderFound == Find(orders, orderId)
  IN  IF currentOrderFound # NoOrder /\ currentOrderFound.status # "draft"
      THEN /\ last' = Thrown("updateOrder", orderId, "none", currentOrderFound.status,
                             <<"Can only update orders in draft status">>)
           /\ UNCHANGED <<orders, currentOrder, loading, error, http, srv>>
      ELSE /\ HasFreeSlot
           /\ Send("updateOrder", orderId, "none", NoData)
           /\ last' = Sent("updateOrder", orderId, "none", currentOrderFound.status)
           /\ UNCHANGED <<orders, currentOrder, loading, error, srv>>

\* cancelOrder that also refuses an order in processing
cancelOrderNotProcessing(orderId) ==
  LET order == Find(orders, orderId)
  IN  IF order # NoOrder /\ order.status \in {"processing", "shipped", "delivered"}
      THEN /\ last' = Thrown("cancelOrder", orderId, "cancelled", order.status,
                             <<"Cannot cancel order in ", order.status, " status">>)
           /\ UNCHANGED <<orders, currentOrder, loading, error, http, srv>>
      ELSE UpdateOrderStatusFrom("cancelOrder", orderId, "cancelled")

\* cancelOrder called and subscribed to by sub
cancelOrderFrom(sub, orderId) ==
  LET order == Find(orders, orderId)
  IN  IF order # NoOrder /\ (order.status = "shipped" \/ order.status = "delivered")
      THEN /\ last' = Thrown("cancelOrder", orderId, "cancelled", order.status,
                             <<"Cannot cancel order in ", order.status, " status">>)
           /\ UNCHANGED <<orders, currentOrder, loading, error, http, srv>>
      ELSE UpdateOrderStatusSub(sub, "cancelOrder", orderId, "cancelled")

cancelOrder(orderId) == cancelOrderFrom("none", orderId)

addItemToOrder(orderId, item) ==
  IF item.quantity <= 0
  THEN /\ last' = Thrown("addItemToOrder", orderId, "none", Find(orders, orderId).status,
                         <<"Quantity must be positive">>)
       /\ UNCHANGED <<orders, currentOrder, loading, error, http, srv>>
  ELSE /\ HasFreeSlot
       /\ Send("addItemToOrder", orderId, "none", NoData)
       /\ last' = Sent("addItemToOrder", orderId, "none", Find(orders, orderId).status)
       /\ UNCHANGED <<orders, currentOrder, loading, error, srv>>

removeItemFromOrder(orderId) ==
  /\ HasFreeSlot
  /\ Send("removeItemFromOrder", orderId, "none", NoData)
  /\ last' = Sent("removeItemFromOrder", orderId, "none", Find(orders, orderId).status)
  /\ UNCHANGED <<orders, currentOrder, loading, error, srv>>

\* the tracking numbers trackOrder is called with
TrackingNumbers == OrderIds

\* trackOrder: a GET whose pipe has a catchError and no tap
trackOrder(trackingNumber) ==
  /\ HasFreeSlot
  /\ Send("trackOrder", trackingNumber, "none", NoData)
  /\ last' = Sent("trackOrder", trackingNumber, "none", "none")
  /\ UNCHANGED <<orders, currentOrder, loading, error, srv>>

clearCurrentOrder ==
  /\ currentOrder' = NoOrder
  /\ last' = NoEvent
  /\ UNCHANGED <<orders, loading, error, http, srv>>

clearError ==
  /\ error' = Null
  /\ last' = NoEvent
  /\ UNCHANGED <<orders, currentOrder, loading, http, srv>>

\* the targets of updateOrderStatus calls made without waiting: those of
\* the service's test of concurrent updates (pending, confirmed), and cancelled
RaceTargets == {"pending", "confirmed", "cancelled"}

\* throwError gives the error to the subscriber of the call when it
\* subscribes, in the task that made the call: nothing else runs before the
\* subscriber has taken it
Ready == last.ev # "throw"

ErrorTaken ==
  /\ last.ev = "throw"
  /\ last' = NoEvent
  /\ UNCHANGED <<orders, currentOrder, loading, error, http, srv>>

(***************************************************************************)
(* The backend behind /api/orders.  It is not part of the repository; it   *)
(* is modelled from the specification: an order is created in draft, and   *)
(* a status change is applied iff the transition table allows it.  Any     *)
(* request may also fail with a server error.                              *)
(***************************************************************************)
Ok(m, body) == [m EXCEPT !.phase = "response", !.code = 200, !.body = body]
Fail(m, code) == [m EXCEPT !.phase = "response", !.code = code]

\* an HttpErrorResponse: its status, the message of its error body (Null
\* when the body has none) and whether the body is an ErrorEvent
ErrorResponse(code, emsg, event) == [code |-> code, emsg |-> emsg, event |-> event]

FailWith(m, resp) ==
  [m EXCEPT !.phase = "response", !.code = resp.code, !.emsg = resp.emsg,
            !.event = resp.event]

\* the error responses a request is answered with: each status handleError
\* tells apart, with and without a message in the body, two it does not
\* (503, and 0 with the ProgressEvent of a connection that failed), and
\* bodies that are an ErrorEvent
ErrorResponses ==
  { ErrorResponse(400, <<"Items out of stock">>, FALSE),
    ErrorResponse(400, Null, FALSE), ErrorResponse(400, <<"">>, FALSE),
    ErrorResponse(404, Null, FALSE), ErrorResponse(404, <<"No such order">>, FALSE),
    ErrorResponse(409, Null, FALSE), ErrorResponse(500, Null, FALSE),
    ErrorResponse(503, Null, FALSE), ErrorResponse(0, Null, FALSE),
    ErrorResponse(0, <<"Network error">>, TRUE),
    ErrorResponse(500, <<"Script error">>, TRUE) }

NextId == CHOOSE n \in OrderIds : srv[n] = "none" /\ \A j \in OrderIds : srv[j] = "none" => n <= j

RECURSIVE ServerOrders(_)
ServerOrders(n) ==
  IF n = 0 THEN <<>>
  ELSE ServerOrders(n - 1) \o (IF srv[n] = "none" THEN <<>> ELSE <<Order(n, srv[n])>>)

\* the bag with one copy of m replaced by r
Answer(m, r) == (http (-) SetToBag({m})) (+) SetToBag({r})

\* a backend that creates an order in pending
ServerRespondCreatingPending(m) ==
  /\ m.phase = "request"
  /\ last' = NoEvent
  /\ UNCHANGED <<orders, currentOrder, loading, error>>
  /\ CASE m.op = "createOrder" ->
            /\ srv' = [srv EXCEPT ![NextId] = "pending"]
            /\ http' = Answer(m, Ok(m, <<Order(NextId, "pending")>>))
       [] m.op = "getUserOrders" ->
            /\ srv' = srv
            /\ http' = Answer(m, Ok(m, ServerOrders(Cardinality(DOMAIN srv))))
       [] m.op = "updateOrderStatus" ->
            IF srv[m.id] = "none"
            THEN srv' = srv /\ http' = Answer(m, Fail(m, 404))
            ELSE IF CanTransition(srv[m.id], m.target)
            THEN /\ srv' = [srv EXCEPT ![m.id] = m.target]
                 /\ http' = Answer(m, Ok(m, <<Order(m.id, m.target)>>))
            ELSE srv' = srv /\ http' = Answer(m, Fail(m, 409))
       [] m.op = "trackOrder" ->
            /\ srv' = srv
            /\ http' = Answer(m, Ok(m, <<>>))
       [] OTHER ->
            /\ srv' = srv
            /\ http' = Answer(m, IF srv[m.id] = "none" THEN Fail(m, 404)
                                 ELSE Ok(m, <<Order(m.id, srv[m.id])>>))

\* the backend answers a request: createOrder creates the order in draft
ServerRespond(m) ==
  /\ m.phase = "request"
  /\ last' = NoEvent
  /\ UNCHANGED <<orders, currentOrder, loading, error>>
  /\ CASE m.op = "createOrder" ->
            /\ srv' = [srv EXCEPT ![NextId] = "draft"]
            /\ http' = Answer(m, Ok(m, <<Order(NextId, "draft")>>))
       [] m.op = "getUserOrders" ->
            /\ srv' = srv
            /\ http' = Answer(m, Ok(m, ServerOrders(Cardinality(DOMAIN srv))))
       [] m.op = "updateOrderStatus" ->
            IF srv[m.id] = "none"
            THEN srv' = srv /\ http' = Answer(m, Fail(m, 404))
            ELSE IF CanTransition(srv[m.id], m.target)
            THEN /\ srv' = [srv EXCEPT ![m.id] = m.target]
                 /\ http' = Answer(m, Ok(m, <<Order(m.id, m.target)>>))
            ELSE srv' = srv /\ http' = Answer(m, Fail(m, 409))
       [] m.op = "trackOrder" ->
            /\ srv' = srv
            /\ http' = Answer(m, Ok(m, <<>>))
       [] OTHER ->
            /\ srv' = srv
            /\ http' = Answer(m, IF srv[m.id] = "none" THEN Fail(m, 404)
                                 ELSE Ok(m, <<Order(m.id, srv[m.id])>>))

ServerFail(m) ==
  /\ m.phase = "request"
  /\ http' = Answer(m, Fail(m, 500))
  /\ last' = NoEvent
  /\ UNCHANGED <<orders, currentOrder, loading, error, srv>>

\* the request fails with the error response resp
ServerFailWith(m, resp) ==
  /\ m.phase = "request"
  /\ http' = Answer(m, FailWith(m, resp))
  /\ last' = NoEvent
  /\ UNCHANGED <<orders, currentOrder, loading, error, srv>>

(***************************************************************************)
(* Responses: the tap and catchError of each operation's pipe.             *)
(***************************************************************************)
\* the message handleError chooses for an HTTP error response
\* a choice of message that has none for a conflict
HandleErrorMessageNoConflict(event, code, emsg) ==
  IF event THEN emsg
  ELSE IF code = 400
  THEN (IF emsg # Null /\ emsg # <<"">> THEN emsg ELSE <<"Invalid request">>)
  ELSE IF code = 404 THEN <<"Order not found">>
  ELSE IF code = 500 THEN <<"Server error. Please try again later.">>
  ELSE <<"An unexpected error occurred">>

\* an empty string is falsy: error.error?.message || 'Invalid request'
HandleErrorMessage(event, code, emsg) ==
  IF event THEN emsg
  ELSE IF code = 400
  THEN (IF emsg # Null /\ emsg # <<"">> THEN emsg ELSE <<"Invalid request">>)
  ELSE IF code = 404 THEN <<"Order not found">>
  ELSE IF code = 409 THEN <<"Order conflict - please refresh">>
  ELSE IF code = 500 THEN <<"Server error. Please try again later.">>
  ELSE <<"An unexpected error occurred">>

handleError(m) ==
  /\ loading' = FALSE
  /\ error' = HandleErrorMessage(m.event, m.code, m.emsg)
  /\ UNCHANGED <<orders, currentOrder>>

\* tap of createOrder
CreateOrderTap(order) ==
  /\ orders' = Append(orders, order)
  /\ currentOrder' = order
  /\ loading' = FALSE

\* tap of getOrder
GetOrderTap(order) ==
  /\ currentOrder' = order
  /\ UNCHANGED <<orders, loading>>

\* tap of getUserOrders
GetUserOrdersTap(list) ==
  /\ orders' = list
  /\ loading' = FALSE
  /\ UNCHANGED currentOrder

\* a tap that arbitrates: it applies a response only when the table allows
\* the change from the listed status
UpdateTapArbitrating(orderId, order) ==
  /\ orders' = IF Find(orders, orderId) = NoOrder
                   \/ Includes(ORDER_STATUS_TRANSITIONS[Find(orders, orderId).status],
                               order.status)
                THEN MapReplace(orders, orderId, order) ELSE orders
  /\ currentOrder' = IF currentOrder.id = orderId THEN order ELSE currentOrder
  /\ UNCHANGED loading

\* tap of updateOrderStatus and of updateOrder
UpdateTap(orderId, order) ==
  /\ orders' = MapReplace(orders, orderId, order)
  /\ currentOrder' = IF currentOrder.id = orderId THEN order ELSE currentOrder
  /\ UNCHANGED loading

\* tap of addItemToOrder and of removeItemFromOrder
ItemTap(orderId, order) ==
  /\ orders' = MapReplace(orders, orderId, order)
  /\ UNCHANGED <<currentOrder, loading>>

Deliver(m) ==
  /\ m.phase = "response"
  /\ http' = http (-) SetToBag({m})
  /\ UNCHANGED srv
  /\ last' = IF m.code # 200 THEN Errored(HandleErrorMessage(m.event, m.code, m.emsg))
              ELSE NoEvent
  /\ IF m.code # 200 THEN handleError(m)
     ELSE /\ error' = error
          /\ CASE m.op = "createOrder" -> CreateOrderTap(m.body[1])
               [] m.op = "getOrder" -> GetOrderTap(m.body[1])
               [] m.op = "getUserOrders" -> GetUserOrdersTap(m.body)
               [] m.op \in {"updateOrderStatus", "updateOrder"} -> UpdateTap(m.id, m.body[1])
               [] m.op = "trackOrder" -> UNCHANGED <<orders, currentOrder, loading>>
               [] OTHER -> ItemTap(m.id, m.body[1])

(***************************************************************************)
(* OrderListComponent (order-list.component.ts).  loadOrders subscribes to *)
(* getUserOrders through takeUntil(destroy$); setupAutoRefresh subscribes   *)
(* to timer(...).pipe(takeUntil(destroy$), switchMap(getUserOrders)).  The  *)
(* operators behave as RxJS defines them: switchMap unsubscribes from the   *)
(* request it waits for when the next tick comes; an error of the inner     *)
(* Observable is the error of the whole pipe and ends its subscription;     *)
(* takeUntil ends what is above it in the pipe, so destroy$ stops the timer *)
(* of setupAutoRefresh and leaves the request switchMap waits for alone.    *)
(* cancelOrder subscribes to the service's cancelOrder through             *)
(* takeUntil(destroy$).  The computed filteredOrders sorts the array it    *)
(* reads in place when the filter is 'all': that array is the one the      *)
(* orders signal holds, and after a load or a refresh it is also the one   *)
(* ordersSignal of the service holds, the tap and the subscriber having    *)
(* been given the same array.  The formatting methods of the component     *)
(* are not modelled.                                                       *)
(***************************************************************************)
\* createdAt of an order, as the day of January 2024: those of mockOrders,
\* and orders after the second are older
CreatedAt(id) == IF id = 1 THEN 15 ELSE 12 - id

\* the comparator of filteredOrders
CompareDates(a, b, order) ==
  IF order = "desc" THEN CreatedAt(b.id) - CreatedAt(a.id)
  ELSE CreatedAt(a.id) - CreatedAt(b.id)

\* Array.prototype.sort with that comparator: a stable sort
RECURSIVE InsertByDate(_, _, _)
InsertByDate(o, list, order) ==
  IF list = <<>> THEN <<o>>
  ELSE IF CompareDates(Head(list), o, order) <= 0
  THEN <<Head(list)>> \o InsertByDate(o, Tail(list), order)
  ELSE <<o>> \o list

RECURSIVE SortByDate(_, _)
SortByDate(list, order) ==
  IF list = <<>> THEN <<>>
  ELSE InsertByDate(list[Len(list)], SortByDate(SubSeq(list, 1, Len(list) - 1), order), order)

\* result.filter(o => o.status === status)
RECURSIVE FilterByStatus(_, _)
FilterByStatus(list, status) ==
  IF list = <<>> THEN <<>>
  ELSE (IF Head(list).status = status THEN <<Head(list)>> ELSE <<>>)
       \o FilterByStatus(Tail(list), status)

\* the value of filteredOrders
FilteredOrders ==
  SortByDate(IF filterStatus # "all" THEN FilterByStatus(cOrders, filterStatus) ELSE cOrders,
             sortOrder)

\* a read of filteredOrders: with the filter 'all' the sort is that of the
\* array of the orders signal itself, with another filter that of a copy
filteredOrders ==
  /\ cPhase = "active"
  /\ cOrders' = IF filterStatus = "all" THEN FilteredOrders ELSE cOrders
  /\ orders' = IF filterStatus = "all" /\ shared THEN FilteredOrders ELSE orders
  /\ UNCHANGED <<currentOrder, loading, error, http, srv, last>>
  /\ UNCHANGED <<cPhase, autoRefresh, refreshOn, shared, cLoading, cError, viewVars>>

\* the values setFilter is called with
FilterInputs == {"all", "pending", "delivered"}

\* next and error of the subscriber of loadOrders
LoadNext(list) ==
  /\ cOrders' = list
  /\ shared' = TRUE
  /\ cLoading' = FALSE
  /\ UNCHANGED <<refreshOn, cError, viewVars>>

LoadError(msg) ==
  /\ cError' = msg
  /\ cLoading' = FALSE
  /\ UNCHANGED <<refreshOn, cOrders, shared, viewVars>>

\* a next that also puts the view back as it was constructed
RefreshNextResettingView(list) ==
  /\ cOrders' = list
  /\ shared' = TRUE
  /\ filterStatus' = "all"
  /\ selectedOrderId' = 0
  /\ UNCHANGED <<refreshOn, cLoading, cError, sortOrder>>

\* next of the subscriber of setupAutoRefresh
RefreshNext(list) ==
  /\ cOrders' = list
  /\ shared' = TRUE
  /\ UNCHANGED <<refreshOn, cLoading, cError, viewVars>>

\* next and error of the subscriber of cancelOrder
CancelNext(orderId, updatedOrder) ==
  /\ cOrders' = MapReplace(cOrders, orderId, updatedOrder)
  /\ shared' = FALSE
  /\ UNCHANGED <<refreshOn, cLoading, cError, viewVars>>

CancelError(msg) ==
  /\ cError' = msg
  /\ UNCHANGED <<refreshOn, cOrders, shared, cLoading, viewVars>>

\* error of the subscriber of setupAutoRefresh: the callback does nothing,
\* and the error has ended the subscription, the timer with it
RefreshError ==
  /\ refreshOn' = FALSE
  /\ UNCHANGED <<cOrders, shared, cLoading, cError, viewVars>>

ngOnInit ==
  /\ cPhase = "created"
  /\ cPhase' = "active"
  /\ cLoading' = TRUE
  /\ cError' = Null
  /\ getUserOrdersFrom("load", http)
  /\ refreshOn' = autoRefresh
  /\ UNCHANGED <<autoRefresh, cOrders, shared, viewVars>>

loadOrders ==
  /\ cPhase = "active"
  /\ cLoading' = TRUE
  /\ cError' = Null
  /\ getUserOrdersFrom("load", http)
  /\ UNCHANGED <<cPhase, autoRefresh, refreshOn, cOrders, shared, viewVars>>

\* a tick of the timer of setupAutoRefresh
RefreshTick ==
  /\ refreshOn
  /\ getUserOrdersFrom("refresh", Without(http, "refresh"))
  /\ UNCHANGED compVars

ngOnDestroy ==
  /\ cPhase = "active"
  /\ cPhase' = "destroyed"
  /\ refreshOn' = FALSE
  /\ http' = Without(Without(http, "load"), "cancel")
  /\ last' = NoEvent
  /\ UNCHANGED <<orders, currentOrder, loading, error, srv>>
  /\ UNCHANGED <<autoRefresh, cOrders, shared, cLoading, cError, viewVars>>

\* a response to a request of the component: the pipe of the service, then
\* the subscriber
ComponentDeliver(m) ==
  /\ m.sub \in {"load", "refresh", "cancel"}
  /\ Deliver(m)
  /\ UNCHANGED <<cPhase, autoRefresh>>
  /\ CASE m.sub = "cancel" /\ m.code = 200 -> CancelNext(m.id, m.body[1])
       [] m.sub = "cancel" /\ m.code # 200 ->
            CancelError(HandleErrorMessage(m.event, m.code, m.emsg))
       [] m.sub = "load" /\ m.code = 200 -> LoadNext(m.body)
       [] m.sub = "load" /\ m.code # 200 -> LoadError(HandleErrorMessage(m.event, m.code, m.emsg))
       [] m.sub = "refresh" /\ m.code = 200 -> RefreshNext(m.body)
       [] m.sub = "refresh" /\ m.code # 200 -> RefreshError

\* cancelOrder of the component: an error the service throws is given to
\* the subscriber when it subscribes
ListCancelOrder(orderId) ==
  /\ cPhase = "active"
  /\ cancelOrderFrom("cancel", orderId)
  /\ cError' = IF last'.ev = "throw" THEN last'.msg ELSE cError
  /\ UNCHANGED <<cPhase, autoRefresh, refreshOn, cOrders, shared, cLoading, viewVars>>

selectOrder(orderId) ==
  /\ cPhase = "active"
  /\ selectedOrderId' = orderId
  /\ UNCHANGED <<cPhase, autoRefresh, refreshOn, cOrders, shared, cLoading, cError,
                 filterStatus, sortOrder>>
  /\ UNCHANGED svcVars

setFilter(status) ==
  /\ cPhase = "active"
  /\ filterStatus' = status
  /\ UNCHANGED <<cPhase, autoRefresh, refreshOn, cOrders, shared, cLoading, cError,
                 selectedOrderId, sortOrder>>
  /\ UNCHANGED svcVars

toggleSortOrder ==
  /\ cPhase = "active"
  /\ sortOrder' = IF sortOrder = "asc" THEN "desc" ELSE "asc"
  /\ UNCHANGED <<cPhase, autoRefresh, refreshOn, cOrders, shared, cLoading, cError,
                 selectedOrderId, filterStatus>>
  /\ UNCHANGED svcVars

(***************************************************************************)
(* OrderService.pollOrderStatus: timer(0, intervalMs) piped through        *)
(* switchMap(getOrder) and then take(10).  A tick makes switchMap          *)
(* unsubscribe from the request it waits for and call getOrder again; take *)
(* counts what comes out of switchMap, the orders of the responses.        *)
(***************************************************************************)
\* take(10)
PollLimit == 10

\* pollOrderStatus(orderId).subscribe(...)
pollOrderStatus(orderId) ==
  /\ pollId = 0
  /\ pollId' = orderId
  /\ pollOn' = TRUE
  /\ UNCHANGED <<pollRequests, pollEmitted, pollDone>>
  /\ UNCHANGED svcVars

\* a tick of the timer: at subscription, then every intervalMs
PollTick ==
  /\ pollOn
  /\ pollRequests < MaxTicks
  /\ getOrderFrom("poll", Without(http, "poll"), pollId)
  /\ pollRequests' = pollRequests + 1
  /\ UNCHANGED <<pollId, pollOn, pollEmitted, pollDone>>

\* a response to the request switchMap waits for: the pipe of getOrder, then
\* take and the subscriber
PollDeliver(m) ==
  /\ m.sub = "poll"
  /\ Deliver(m)
  /\ UNCHANGED <<pollId, pollRequests>>
  /\ IF m.code = 200
     THEN /\ pollEmitted' = pollEmitted + 1
          /\ pollOn' = (pollEmitted + 1 < PollLimit)
          /\ pollDone' = IF pollEmitted + 1 < PollLimit THEN pollDone ELSE "complete"
     ELSE /\ pollOn' = FALSE
          /\ pollDone' = "error"
          /\ UNCHANGED pollEmitted

(***************************************************************************)
(* UserService.validatePassword (user.service.ts).  A password is the      *)
(* sequence of its characters; a regular expression of one character       *)
(* class, tested on it, finds a character of the class.                    *)
(***************************************************************************)
\* [A-Z]
UpperCase ==
  {"A", "B", "C", "D", "E", "F", "G", "H", "I", "J", "K", "L", "M", "N",
   "O", "P", "Q", "R", "S", "T", "U", "V", "W", "X", "Y", "Z"}

\* [a-z]
LowerCase ==
  {"a", "b", "c", "d", "e", "f", "g", "h", "i", "j", "k", "l", "m", "n",
   "o", "p", "q", "r", "s", "t", "u", "v", "w", "x", "y", "z"}

\* \d
Digit ==
  {"0", "1", "2", "3", "4", "5", "6", "7", "8", "9"}

\* [!@#$%^&*(),.?":{}|<>]
SpecialCharacter ==
  {"!", "@", "#", "$", "%", "^", "&", "*", "(", ")", ",", ".", "?", "\"",
   ":", "{", "}", "|", "<", ">"}

\* /[class]/.test(password)
Test(class, password) == \E i \in 1..Len(password) : password[i] \in class

Invalid(message) == [valid |-> FALSE, error |-> <<message>>]

\* validatePassword that looks for a digit before it looks for the letters
validatePasswordDigitFirst(password) ==
  IF Len(password) = 0 \/ Len(password) < 8
  THEN Invalid("Password must be at least 8 characters")
  ELSE IF ~Test(Digit, password)
  THEN Invalid("Password must contain at least one number")
  ELSE IF ~Test(UpperCase, password)
  THEN Invalid("Password must contain at least one uppercase letter")
  ELSE IF ~Test(LowerCase, password)
  THEN Invalid("Password must contain at least one lowercase letter")
  ELSE IF ~Test(SpecialCharacter, password)
  THEN Invalid("Password must contain at least one special character")
  ELSE [valid |-> TRUE, error |-> Null]

validatePassword(password) ==
  IF Len(password) = 0 \/ Len(password) < 8
  THEN Invalid("Password must be at least 8 characters")
  ELSE IF ~Test(UpperCase, password)
  THEN Invalid("Password must contain at least one uppercase letter")
  ELSE IF ~Test(LowerCase, password)
  THEN Invalid("Password must contain at least one lowercase letter")
  ELSE IF ~Test(Digit, password)
  THEN Invalid("Password must contain at least one number")
  ELSE IF ~Test(SpecialCharacter, password)
  THEN Invalid("Password must contain at least one special character")
  ELSE [valid |-> TRUE, error |-> Null]

\* the passwords the calls start from: the empty one, those of the service's
\* tests, and eight characters that are in none of the classes
PwdStarts ==
  { <<>>,
    <<"S", "h", "o", "r", "t", "1", "!">>,
    <<"l", "o", "w", "e", "r", "c", "a", "s", "e", "1", "!">>,
    <<"U", "P", "P", "E", "R", "C", "A", "S", "E", "1", "!">>,
    <<"N", "o", "N", "u", "m", "b", "e", "r", "!">>,
    <<"N", "o", "S", "p", "e", "c", "i", "a", "l", "1">>,
    <<"V", "a", "l", "i", "d", "P", "a", "s", "s", "1", "!">>,
    <<"_", "_", "_", "_", "_", "_", "_", "_">> }

\* the characters typed after them: one of each class and one of none
PwdChars == {"A", "b", "7", "!", "_"}

PwdType(c) ==
  /\ pwdResult = NoValidation
  /\ pwdTyped < MaxTyped
  /\ pwd' = Append(pwd, c)
  /\ pwdTyped' = pwdTyped + 1
  /\ UNCHANGED pwdResult

PwdValidate ==
  /\ pwdResult = NoValidation
  /\ pwdResult' = validatePassword(pwd)
  /\ UNCHANGED <<pwd, pwdTyped>>

(***************************************************************************)
(* UserService: the session.  The state is the current user, the token,    *)
(* the two localStorage items, isLoading and error.  The operations are    *)
(* modelled with the responses to them; getUser, changePassword,           *)
(* requestPasswordReset and updateUserStatus have no tap and write the     *)
(* state only through handleError.  A user is [id, rev], rev telling the   *)
(* profile as registered (0) from the updated one (1); a name is held as   *)
(* its trimmed length.                                                     *)
(***************************************************************************)
UserIds == 1..MaxUsers
ProfileRevs == {0, 1}

User(id, rev) == [id |-> id, rev |-> rev]
NoUser == [id |-> 0, rev |-> 0]
Token(id) == <<"token", id>>

\* JSON.stringify(user) and JSON.parse(text)
Stringify(user) == <<"json", user.id, user.rev>>
Parse(text) == User(text[2], text[3])

NoStorage == [auth_token |-> Null, user |-> Null]

\* what the last step of the service did: a call that sent its request
\* ("call"), a call that returned throwError ("throw"), logout, or nothing
NoUserEvent == [ev |-> "none", op |-> "none", msg |-> Null]
UserSent(op) == [ev |-> "call", op |-> op, msg |-> Null]
UserThrown(op, msg) == [ev |-> "throw", op |-> op, msg |-> msg]

UserRequest(op, id) ==
  [op |-> op, id |-> id, phase |-> "request", code |-> 0, emsg |-> Null,
   event |-> FALSE, body |-> NoUser, btoken |-> Null]

UserSend(op, id) ==
  /\ BagCardinality(userHttp) < MaxUserFlight
  /\ userHttp' = userHttp (+) SetToBag({UserRequest(op, id)})
  /\ userLast' = UserSent(op)

\* the 25 code units \s matches: tab, line feed, vertical tab, form feed,
\* carriage return, space, no-break space, U+1680, U+2000 to U+200A, the
\* line and paragraph separators, U+202F, U+205F, U+3000 and U+FEFF.  A
\* character without an escape of its own is written as its code point.
WhiteSpace ==
  {"\t", "\n", "U+000B", "\f", "\r", " ", "U+00A0", "U+1680",
   "U+2000", "U+2001", "U+2002", "U+2003", "U+2004", "U+2005", "U+2006",
   "U+2007", "U+2008", "U+2009", "U+200A", "U+2028", "U+2029", "U+202F",
   "U+205F", "U+3000", "U+FEFF"}

\* emailRegex.test(email) for /^[^\s@]+@[^\s@]+\.[^\s@]+$/: no white space,
\* one @ that is not the first character, and after it a dot that has a
\* character before it and a character after it
isValidEmail(email) ==
  /\ \A i \in 1..Len(email) : email[i] \notin WhiteSpace
  /\ \E a \in 2..Len(email) :
       /\ email[a] = "@"
       /\ \A i \in 1..Len(email) : email[i] = "@" => i = a
       /\ \E d \in (a + 2)..(Len(email) - 1) : email[d] = "."

ValidEmail == <<"a", "@", "b", ".", "c">>
ValidPassword == <<"V", "a", "l", "i", "d", "P", "a", "s", "s", "1", "!">>

LoginDto(email, password) == [email |-> email, password |-> password]
LoginDtos ==
  { LoginDto(ValidEmail, ValidPassword), LoginDto(ValidEmail, <<>>),
    LoginDto(<<"a", "@", "b">>, ValidPassword),
    LoginDto(<<"@", "b", ".", "c">>, ValidPassword),
    LoginDto(<<"a", " ", "@", "b", ".", "c">>, ValidPassword),
    LoginDto(<<"a", "\t", "@", "b", ".", "c">>, ValidPassword),
    LoginDto(<<"a", "@", "b", "\n", ".", "c">>, ValidPassword),
    LoginDto(<<"a", "@", "b", ".", "c", "\f">>, ValidPassword) }

RegisterDto(email, password, firstName, lastName) ==
  [email |-> email, password |-> password, firstName |-> firstName,
   lastName |-> lastName]
RegisterDtos ==
  { RegisterDto(ValidEmail, ValidPassword, 4, 3),
    RegisterDto(<<"a", "@", "b", ".">>, ValidPassword, 4, 3),
    RegisterDto(ValidEmail, <<"S", "h", "o", "r", "t", "1", "!">>, 4, 3),
    RegisterDto(ValidEmail, ValidPassword, 1, 3),
    RegisterDto(ValidEmail, ValidPassword, 4, 0) }

\* the message register rejects the dto with, Null when it accepts it
RegisterError(dto) ==
  IF ~isValidEmail(dto.email) THEN <<"Invalid email format">>
  ELSE IF ~validatePassword(dto.password).valid THEN validatePassword(dto.password).error
  ELSE IF dto.firstName < 2 THEN <<"First name must be at least 2 characters">>
  ELSE IF dto.lastName < 2 THEN <<"Last name must be at least 2 characters">>
  ELSE Null

register(dto) ==
  IF RegisterError(dto) # Null
  THEN /\ userLast' = UserThrown("register", RegisterError(dto))
       /\ UNCHANGED <<currentUser, token, userLoading, userError, storage, userHttp>>
  ELSE /\ userLoading' = TRUE
       /\ userError' = Null
       /\ UserSend("register", 0)
       /\ UNCHANGED <<currentUser, token, storage>>

LoginError(dto) ==
  IF ~isValidEmail(dto.email) THEN <<"Invalid email format">>
  ELSE IF dto.password = <<>> THEN <<"Password is required">>
  ELSE Null

login(dto) ==
  IF LoginError(dto) # Null
  THEN /\ userLast' = UserThrown("login", LoginError(dto))
       /\ UNCHANGED <<currentUser, token, userLoading, userError, storage, userHttp>>
  ELSE /\ userLoading' = TRUE
       /\ userError' = Null
       /\ UserSend("login", 0)
       /\ UNCHANGED <<currentUser, token, storage>>

\* the writes of logout
Logout ==
  /\ currentUser' = NoUser
  /\ token' = Null
  /\ storage' = NoStorage

logout ==
  /\ Logout
  /\ userLast' = [NoUserEvent EXCEPT !.ev = "logout", !.op = "logout"]
  /\ UNCHANGED <<userLoading, userError, userHttp>>

updateProfile ==
  IF currentUser = NoUser
  THEN /\ userLast' = UserThrown("updateProfile", <<"No user logged in">>)
       /\ UNCHANGED <<currentUser, token, userLoading, userError, storage, userHttp>>
  ELSE /\ userLoading' = TRUE
       /\ UserSend("updateProfile", currentUser.id)
       /\ UNCHANGED <<currentUser, token, userError, storage>>

deactivateAccount ==
  IF currentUser = NoUser
  THEN /\ userLast' = UserThrown("deactivateAccount", <<"No user logged in">>)
       /\ UNCHANGED <<currentUser, token, userLoading, userError, storage, userHttp>>
  ELSE /\ UserSend("deactivateAccount", currentUser.id)
       /\ UNCHANGED <<currentUser, token, userLoading, userError, storage>>

getUser(id) ==
  /\ UserSend("getUser", id)
  /\ UNCHANGED <<currentUser, token, userLoading, userError, storage>>

\* the pairs <<currentPassword, newPassword>> changePassword is called with
PasswordChanges ==
  { <<ValidPassword, <<"N", "e", "w", "P", "a", "s", "s", "2", "?">>>>,
    <<ValidPassword, ValidPassword>>,
    <<ValidPassword, <<"S", "h", "o", "r", "t", "1", "!">>>> }

\* the message changePassword rejects the call with, Null when it accepts it
ChangePasswordError(currentPassword, newPassword) ==
  IF ~validatePassword(newPassword).valid THEN validatePassword(newPassword).error
  ELSE IF currentPassword = newPassword
  THEN <<"New password must be different from current password">>
  ELSE Null

changePassword(currentPassword, newPassword) ==
  IF ChangePasswordError(currentPassword, newPassword) # Null
  THEN /\ userLast' = UserThrown("changePassword",
                                  ChangePasswordError(currentPassword, newPassword))
       /\ UNCHANGED <<currentUser, token, userLoading, userError, storage, userHttp>>
  ELSE /\ UserSend("changePassword", 0)
       /\ UNCHANGED <<currentUser, token, userLoading, userError, storage>>

\* the emails requestPasswordReset is called with
ResetEmails ==
  { ValidEmail, <<"a", "@", "b">>, <<"a", "U+00A0", "@", "b", ".", "c">>,
    <<"U+FEFF", "a", "@", "b", ".", "c">> }

requestPasswordReset(email) ==
  IF ~isValidEmail(email)
  THEN /\ userLast' = UserThrown("requestPasswordReset", <<"Invalid email format">>)
       /\ UNCHANGED <<currentUser, token, userLoading, userError, storage, userHttp>>
  ELSE /\ UserSend("requestPasswordReset", 0)
       /\ UNCHANGED <<currentUser, token, userLoading, userError, storage>>

\* the status asked for is part of the request body only
updateUserStatus(userId) ==
  /\ UserSend("updateUserStatus", userId)
  /\ UNCHANGED <<currentUser, token, userLoading, userError, storage>>

\* clearError of UserService
UserClearError ==
  /\ userError' = Null
  /\ userLast' = NoUserEvent
  /\ UNCHANGED <<currentUser, token, userLoading, storage, userHttp>>

\* throwError gives the error to the subscriber of the call when it
\* subscribes, in the task that made the call: nothing else runs before the
\* subscriber has taken it
UserReady == userLast.ev # "throw"

UserErrorTaken ==
  /\ userLast.ev = "throw"
  /\ userLast' = NoUserEvent
  /\ UNCHANGED <<currentUser, token, userLoading, userError, storage, userHttp>>

\* the operations whose response carries a user, and those whose pipe has
\* no tap
UserBodyOps == {"login", "register", "updateProfile", "getUser", "updateUserStatus"}
UntappedOps == {"getUser", "changePassword", "requestPasswordReset", "updateUserStatus"}

\* The backend behind /api/users is not part of the repository: it answers
\* login and register with a user and a token for it, updateProfile,
\* getUser and updateUserStatus with the user of the request in any
\* revision, and the others with no content; or it answers with an error
\* response.
UserAnswer(m, r) == (userHttp (-) SetToBag({m})) (+) SetToBag({r})

UserRespond(m, id, rev) ==
  /\ m.phase = "request"
  /\ m.op \in {"updateProfile", "getUser", "updateUserStatus"} => id = m.id
  /\ m.op = "deactivateAccount" => id = m.id /\ rev = 0
  /\ m.op \in {"changePassword", "requestPasswordReset"} =>
       id = CHOOSE u \in UserIds : \A v \in UserIds : u <= v
  /\ m.op \in {"changePassword", "requestPasswordReset"} => rev = 0
  /\ userHttp' = UserAnswer(m, [m EXCEPT !.phase = "response", !.code = 200,
                                  !.body = IF m.op \in UserBodyOps THEN User(id, rev)
                                           ELSE NoUser,
                                  !.btoken = IF m.op \in {"login", "register"}
                                             THEN Token(id) ELSE Null])
  /\ userLast' = NoUserEvent
  /\ UNCHANGED <<currentUser, token, userLoading, userError, storage>>

\* the error responses of the backend: each status handleError tells apart,
\* one it does not, and an ErrorEvent
UserErrorResponses ==
  { ErrorResponse(400, <<"Email is taken">>, FALSE), ErrorResponse(400, Null, FALSE),
    ErrorResponse(401, Null, FALSE), ErrorResponse(404, Null, FALSE),
    ErrorResponse(409, Null, FALSE), ErrorResponse(500, Null, FALSE),
    ErrorResponse(503, Null, FALSE), ErrorResponse(0, <<"Network error">>, TRUE) }

UserFailWith(m, resp) ==
  /\ m.phase = "request"
  /\ userHttp' = UserAnswer(m, FailWith(m, resp))
  /\ userLast' = NoUserEvent
  /\ UNCHANGED <<currentUser, token, userLoading, userError, storage>>

\* the message handleError of UserService chooses
UserErrorMessage(event, code, emsg) ==
  IF event THEN emsg
  ELSE IF code = 400
  THEN (IF emsg # Null /\ emsg # <<"">> THEN emsg ELSE <<"Invalid request">>)
  ELSE IF code = 401 THEN <<"Invalid credentials">>
  ELSE IF code = 404 THEN <<"User not found">>
  ELSE IF code = 409 THEN <<"Email already registered">>
  ELSE IF code = 500 THEN <<"Server error. Please try again later.">>
  ELSE <<"An unexpected error occurred">>

\* handleError of UserService: a 401 that is not an ErrorEvent logs out
UserHandleError(m) ==
  /\ userLoading' = FALSE
  /\ userError' = UserErrorMessage(m.event, m.code, m.emsg)
  /\ IF ~m.event /\ m.code = 401 THEN Logout
     ELSE UNCHANGED <<currentUser, token, storage>>

handleAuthSuccess(user, tok) ==
  /\ currentUser' = user
  /\ token' = tok
  /\ storage' = [auth_token |-> tok, user |-> Stringify(user)]
  /\ userLoading' = FALSE
  /\ UNCHANGED userError

\* tap of updateProfile
UpdateProfileTap(user) ==
  /\ currentUser' = user
  /\ storage' = [storage EXCEPT !.user = Stringify(user)]
  /\ userLoading' = FALSE
  /\ UNCHANGED <<token, userError>>

\* tap of deactivateAccount
DeactivateTap ==
  /\ Logout
  /\ UNCHANGED <<userLoading, userError>>

\* a response reaches the pipe of its operation
UserDeliver(m) ==
  /\ m.phase = "response"
  /\ userHttp' = userHttp (-) SetToBag({m})
  /\ userLast' = NoUserEvent
  /\ IF m.code # 200 THEN UserHandleError(m)
     ELSE CASE m.op \in {"login", "register"} -> handleAuthSuccess(m.body, m.btoken)
            [] m.op = "updateProfile" -> UpdateProfileTap(m.body)
            [] m.op \in UntappedOps ->
                 UNCHANGED <<currentUser, token, userLoading, userError, storage>>
            [] OTHER -> DeactivateTap

\* what localStorage holds when the service is constructed: nothing, the
\* session of an earlier run, or a user without a token
StoredSessions ==
  {NoStorage}
  \cup {[auth_token |-> Token(id), user |-> Stringify(User(id, rev))] :
          id \in UserIds, rev \in ProfileRevs}
  \cup {[auth_token |-> Null, user |-> Stringify(User(id, rev))] :
          id \in UserIds, rev \in ProfileRevs}

\* the constructor: loadStoredAuth takes the session over when both items
\* are there
loadStoredAuth ==
  IF storage.auth_token # Null /\ storage.user # Null
  THEN currentUser = Parse(storage.user) /\ token = storage.auth_token
  ELSE currentUser = NoUser /\ token = Null

(***************************************************************************)
(* calculateOrderTotals called on its own.                                 *)
(***************************************************************************)
\* items the calls are made with: the scenarios of the service's tests and
\* of the specification, prices whose line totals are not binary fractions,
\* and line totals at the free shipping threshold (250.00 x 2 at 80% off and
\* 125.00 x 5 at 84% off are 100 in exact arithmetic)
CalcItems ==
  { Item(2, 2500, 0), Item(1, 5000, 10), Item(5, 2500, 0),
    Item(3, 399, 50), Item(3, 10, 0), Item(5, 75, 55),
    Item(1, 10000, 0), Item(1, 1000, 100),
    Item(2, 25000, 80), Item(5, 12500, 84) }

\* items outside the range createOrder accepts (a discount above 100, a
\* negative quantity, both, line totals and a tax of -0), next to items of
\* the tests
AnyItems ==
  { Item(1, 1000, 150), Item(-2, 2500, 0), Item(3, 1999, 130), Item(-1, 333, 0),
    Item(-2, 2500, 150), Item(-2, 2500, 100), Item(-1, 1, 0),
    Item(2, 2500, 0), Item(1, 5000, 10), Item(5, 2500, 0) }

CalcAddItem(item) ==
  /\ calcResult = NoResult
  /\ Len(calcItems) < MaxItems
  /\ calcItems' = Append(calcItems, item)
  /\ UNCHANGED calcResult

CalcCall ==
  /\ calcResult = NoResult
  /\ calcResult' = calculateOrderTotals(calcItems)
  /\ UNCHANGED calcItems

(***************************************************************************)
(* The status machine on its own: one listed order and updateOrderStatus   *)
(* calls on it.  A call is validated against the listed status and changes *)
(* nothing; the listed status changes when the response arrives, and calls *)
(* and responses interleave.  The response carries the order in the status *)
(* asked for, as the responses of the service's tests do.                  *)
(***************************************************************************)
\* the validation of a call: an accepted request waits for its response
Transition(target) ==
  /\ mReq < MaxRequests
  /\ mReq' = mReq + 1
  /\ mLast' = [from |-> mCur, target |-> target, ok |-> CanTransition(mCur, target)]
  /\ IF CanTransition(mCur, target)
     THEN /\ BagCardinality(mPending) < MaxInFlight
          /\ mPending' = mPending (+) SetToBag({target})
     ELSE UNCHANGED mPending
  /\ UNCHANGED <<mStart, mCur, mLen>>

\* the tap of the call: the response lists the order in the status asked for
TransitionApplied(target) ==
  /\ BagIn(target, mPending)
  /\ mPending' = mPending (-) SetToBag({target})
  /\ mCur' = target
  /\ mLen' = mLen + 1
  /\ UNCHANGED <<mStart, mReq, mLast>>

(***************************************************************************)
(* Specifications.                                                         *)
(***************************************************************************)
InitService ==
  /\ orders = <<>>
  /\ currentOrder = NoOrder
  /\ loading = FALSE
  /\ error = Null
  /\ http = EmptyBag
  /\ last = NoEvent

\* the backend holds the orders of earlier sessions, in any status
InitBackend == srv \in [OrderIds -> OrderStatus \cup {"none"}]

\* a backend without orders
EmptyBackend == srv = [i \in OrderIds |-> "none"]

\* the backend of the component's tests: order 1 pending, the others delivered
TestBackend == srv = [i \in OrderIds |-> IF i = 1 THEN "pending" ELSE "delivered"]

\* the backend of the component's tests (mockOrders): order 1 pending,
\* order 2 delivered
ListBackend == srv = [i \in ListedIds |-> IF i = 1 THEN "pending" ELSE "delivered"]

InitCalc == calcItems = <<>> /\ calcResult = NoResult

InitMachine ==
  /\ mStart = "draft" /\ mCur = "draft" /\ mLen = 0 /\ mReq = 0
  /\ mLast = [from |-> "none", target |-> "none", ok |-> FALSE]
  /\ mPending = EmptyBag

\* the component as constructed, ngOnInit not yet called
InitComponent ==
  /\ cPhase = "created" /\ refreshOn = FALSE
  /\ cOrders = <<>> /\ shared = FALSE /\ cLoading = FALSE /\ cError = Null
  /\ selectedOrderId = 0 /\ filterStatus = "all" /\ sortOrder = "desc"

\* no pollOrderStatus subscription
InitPoll ==
  /\ pollId = 0 /\ pollOn = FALSE
  /\ pollRequests = 0 /\ pollEmitted = 0 /\ pollDone = "no"

InitPassword == pwd = <<>> /\ pwdTyped = 0 /\ pwdResult = NoValidation

\* the parts of the model around the service, before they are used
\* UserService as constructed over the localStorage it finds
InitUser ==
  /\ storage \in StoredSessions
  /\ loadStoredAuth
  /\ userLoading = FALSE /\ userError = Null
  /\ userHttp = EmptyBag /\ userLast = NoUserEvent

\* UserService as constructed over an empty localStorage
InitUserFresh == InitUser /\ storage = NoStorage

InitOthers ==
  /\ InitCalc /\ InitMachine
  /\ InitComponent /\ autoRefresh = FALSE
  /\ InitPoll /\ InitPassword /\ InitUserFresh

Init == InitService /\ InitBackend /\ InitOthers

\* a step of the service leaves the other two parts alone, and so on
ServiceStep == UNCHANGED <<calcVars, machineVars, compVars, pollVars, pwdVars, userVars>>
TotalsStep == UNCHANGED <<svcVars, machineVars, compVars, pollVars, pwdVars, userVars>>
MachineStep == UNCHANGED <<svcVars, calcVars, compVars, pollVars, pwdVars, userVars>>
ComponentStep == UNCHANGED <<calcVars, machineVars, pollVars, pwdVars, userVars>>
UserStep == UNCHANGED <<svcVars, calcVars, machineVars, compVars, pollVars, pwdVars>>
PasswordStep == UNCHANGED <<svcVars, calcVars, machineVars, compVars, pollVars, userVars>>
PollStep == UNCHANGED <<calcVars, machineVars, compVars, pwdVars, userVars>>

Next ==
  \/ Ready /\ \E dto \in CreateDtos : createOrder(dto) /\ ServiceStep
  \/ Ready /\ \E id \in OrderIds : getOrder(id) /\ ServiceStep
  \/ Ready /\ getUserOrders /\ ServiceStep
  \/ Ready /\ \E id \in OrderIds, st \in OrderStatus : updateOrderStatus(id, st) /\ ServiceStep
  \/ Ready /\ \E id \in OrderIds : updateOrder(id) /\ ServiceStep
  \/ Ready /\ \E id \in OrderIds : cancelOrder(id) /\ ServiceStep
  \/ Ready /\ \E id \in OrderIds, item \in AddItemInputs : addItemToOrder(id, item) /\ ServiceStep
  \/ Ready /\ \E id \in OrderIds : removeItemFromOrder(id) /\ ServiceStep
  \/ Ready /\ \E n \in TrackingNumbers : trackOrder(n) /\ ServiceStep
  \/ Ready /\ clearCurrentOrder /\ ServiceStep
  \/ Ready /\ clearError /\ ServiceStep
  \/ Ready /\ \E m \in BagToSet(http) : ServerRespond(m) /\ ServiceStep
  \/ Ready /\ \E m \in BagToSet(http) : ServerFail(m) /\ ServiceStep
  \/ Ready /\ \E m \in BagToSet(http) : Deliver(m) /\ ServiceStep
  \/ ErrorTaken /\ ServiceStep

Spec == Init /\ [][Next]_vars

\* Spec for a caller that makes one request at a time: it calls an
\* operation when no request is in flight
Idle == http = EmptyBag

NextSerial ==
  \/ Ready /\ Idle /\ \E dto \in CreateDtos : createOrder(dto) /\ ServiceStep
  \/ Ready /\ Idle /\ \E id \in OrderIds : getOrder(id) /\ ServiceStep
  \/ Ready /\ Idle /\ getUserOrders /\ ServiceStep
  \/ Ready /\ Idle /\ \E id \in OrderIds, st \in OrderStatus : updateOrderStatus(id, st) /\ ServiceStep
  \/ Ready /\ Idle /\ \E id \in OrderIds : updateOrder(id) /\ ServiceStep
  \/ Ready /\ Idle /\ \E id \in OrderIds : cancelOrder(id) /\ ServiceStep
  \/ Ready /\ Idle /\ \E id \in OrderIds, item \in AddItemInputs : addItemToOrder(id, item) /\ ServiceStep
  \/ Ready /\ Idle /\ \E id \in OrderIds : removeItemFromOrder(id) /\ ServiceStep
  \/ Ready /\ Idle /\ \E n \in TrackingNumbers : trackOrder(n) /\ ServiceStep
  \/ Ready /\ clearCurrentOrder /\ ServiceStep
  \/ Ready /\ clearError /\ ServiceStep
  \/ Ready /\ \E m \in BagToSet(http) : ServerRespond(m) /\ ServiceStep
  \/ Ready /\ \E m \in BagToSet(http) : ServerFail(m) /\ ServiceStep
  \/ Ready /\ \E m \in BagToSet(http) : Deliver(m) /\ ServiceStep
  \/ ErrorTaken /\ ServiceStep

SpecSerial == Init /\ [][NextSerial]_vars

\* Spec for the operations that create, list and change the status of
\* orders, with up to MaxInFlight requests in flight at the same time
NextStatus ==
  \/ Ready /\ createOrder(ValidDto) /\ ServiceStep
  \/ Ready /\ getUserOrders /\ ServiceStep
  \/ Ready /\ \E id \in OrderIds, st \in OrderStatus : updateOrderStatus(id, st) /\ ServiceStep
  \/ Ready /\ \E id \in OrderIds : cancelOrder(id) /\ ServiceStep
  \/ Ready /\ \E m \in BagToSet(http) : ServerRespond(m) /\ ServiceStep
  \/ Ready /\ \E m \in BagToSet(http) : ServerFail(m) /\ ServiceStep
  \/ Ready /\ \E m \in BagToSet(http) : Deliver(m) /\ ServiceStep
  \/ ErrorTaken /\ ServiceStep

SpecStatus == Init /\ [][NextStatus]_vars

\* calculateOrderTotals over item sequences
NextTotals ==
  \/ \E item \in CalcItems : CalcAddItem(item) /\ TotalsStep
  \/ CalcCall /\ TotalsStep

InitTotals == InitService /\ EmptyBackend /\ InitOthers

SpecTotals == InitTotals /\ [][NextTotals]_vars

\* Spec for updateOrderStatus calls that are made without waiting for the
\* responses of the calls before, on orders that createOrder has listed and
\* on orders that are not listed
NextRace ==
  \/ Ready /\ Idle /\ createOrder(ValidDto) /\ ServiceStep
  \/ Ready /\ \E id \in OrderIds, st \in RaceTargets : updateOrderStatus(id, st) /\ ServiceStep
  \/ Ready /\ \E m \in BagToSet(http) : ServerRespond(m) /\ ServiceStep
  \/ Ready /\ \E m \in BagToSet(http) : Deliver(m) /\ ServiceStep
  \/ ErrorTaken /\ ServiceStep

SpecRace == InitTotals /\ [][NextRace]_vars

\* calculateOrderTotals over item sequences with out-of-range values
NextTotalsAny ==
  \/ \E item \in AnyItems : CalcAddItem(item) /\ TotalsStep
  \/ CalcCall /\ TotalsStep

SpecTotalsAny == InitTotals /\ [][NextTotalsAny]_vars

\* SpecSerial over a backend that starts without orders: every order the
\* backend or the service holds is one that createOrder has created
SpecCreated == InitTotals /\ [][NextSerial]_vars

\* the operations of the service, one request at a time, each answered by
\* the backend or with any of the error responses
NextErrors ==
  \/ Ready /\ Idle /\ \E dto \in CreateDtos : createOrder(dto) /\ ServiceStep
  \/ Ready /\ Idle /\ \E id \in OrderIds : getOrder(id) /\ ServiceStep
  \/ Ready /\ Idle /\ getUserOrders /\ ServiceStep
  \/ Ready /\ Idle /\ \E id \in OrderIds, st \in OrderStatus : updateOrderStatus(id, st) /\ ServiceStep
  \/ Ready /\ Idle /\ \E id \in OrderIds : updateOrder(id) /\ ServiceStep
  \/ Ready /\ Idle /\ \E id \in OrderIds : cancelOrder(id) /\ ServiceStep
  \/ Ready /\ Idle /\ \E id \in OrderIds, item \in AddItemInputs : addItemToOrder(id, item) /\ ServiceStep
  \/ Ready /\ Idle /\ \E id \in OrderIds : removeItemFromOrder(id) /\ ServiceStep
  \/ Ready /\ Idle /\ \E n \in TrackingNumbers : trackOrder(n) /\ ServiceStep
  \/ Ready /\ clearCurrentOrder /\ ServiceStep
  \/ Ready /\ clearError /\ ServiceStep
  \/ Ready /\ \E m \in BagToSet(http) : ServerRespond(m) /\ ServiceStep
  \/ Ready /\ \E m \in BagToSet(http), resp \in ErrorResponses : ServerFailWith(m, resp) /\ ServiceStep
  \/ Ready /\ \E m \in BagToSet(http) : Deliver(m) /\ ServiceStep
  \/ ErrorTaken /\ ServiceStep

SpecErrors == Init /\ [][NextErrors]_vars

\* OrderListComponent as the only caller of the service, with and without
\* auto-refresh
InitList ==
  /\ InitService /\ ListBackend /\ InitCalc /\ InitMachine
  /\ InitComponent /\ autoRefresh \in BOOLEAN /\ InitPoll /\ InitPassword
  /\ InitUserFresh

NextList ==
  \/ ngOnInit /\ ComponentStep
  \/ loadOrders /\ ComponentStep
  \/ RefreshTick /\ ComponentStep
  \/ ngOnDestroy /\ ComponentStep
  \/ \E id \in ListedIds : ListCancelOrder(id) /\ ComponentStep
  \/ filteredOrders /\ ComponentStep
  \/ \E id \in ListedIds : selectOrder(id) /\ ComponentStep
  \/ \E status \in FilterInputs : setFilter(status) /\ ComponentStep
  \/ toggleSortOrder /\ ComponentStep
  \/ \E m \in BagToSet(http) : ServerRespond(m) /\ ServiceStep
  \/ \E m \in BagToSet(http) : ServerFail(m) /\ ServiceStep
  \/ \E m \in BagToSet(http) : ComponentDeliver(m) /\ ComponentStep

SpecList == InitList /\ [][NextList]_vars

\* the backend answers a request that waits for an answer, and a response
\* that has arrived is handed to the pipe of its operation
Answered(sub) ==
  \E m \in BagToSet(http) :
     m.sub = sub /\ (ServerRespond(m) \/ ServerFail(m)) /\ ServiceStep
Handed(sub) ==
  \E m \in BagToSet(http) : m.sub = sub /\ ComponentDeliver(m) /\ ComponentStep

\* SpecList with a backend that answers the requests of loadOrders and
\* those of the auto-refresh, and an event loop that runs the callbacks of
\* the responses
SpecListFair ==
  /\ SpecList
  /\ \A sub \in {"load", "refresh"} : SF_vars(Answered(sub)) /\ SF_vars(Handed(sub))

\* a pollOrderStatus subscription as the only caller of the service
InitPolling == InitService /\ TestBackend /\ InitOthers

NextPoll ==
  \/ \E id \in OrderIds : pollOrderStatus(id) /\ PollStep
  \/ PollTick /\ PollStep
  \/ \E m \in BagToSet(http) : ServerRespond(m) /\ ServiceStep
  \/ \E m \in BagToSet(http) : ServerFail(m) /\ ServiceStep
  \/ \E m \in BagToSet(http) : PollDeliver(m) /\ PollStep

SpecPoll == InitPolling /\ [][NextPoll]_vars

\* validatePassword over passwords
InitPasswords ==
  /\ InitService /\ EmptyBackend /\ InitCalc /\ InitMachine
  /\ InitComponent /\ autoRefresh = FALSE /\ InitPoll /\ InitUserFresh
  /\ pwd \in PwdStarts /\ pwdTyped = 0 /\ pwdResult = NoValidation

NextPassword ==
  \/ \E c \in PwdChars : PwdType(c) /\ PasswordStep
  \/ PwdValidate /\ PasswordStep

SpecPassword == InitPasswords /\ [][NextPassword]_vars

\* UserService: calls made without waiting for the responses of the calls
\* before, up to MaxUserFlight requests in flight
InitUsers ==
  /\ InitService /\ EmptyBackend /\ InitCalc /\ InitMachine
  /\ InitComponent /\ autoRefresh = FALSE /\ InitPoll /\ InitPassword
  /\ InitUser

NextUser ==
  \/ UserReady /\ \E dto \in LoginDtos : login(dto) /\ UserStep
  \/ UserReady /\ \E dto \in RegisterDtos : register(dto) /\ UserStep
  \/ UserReady /\ updateProfile /\ UserStep
  \/ UserReady /\ deactivateAccount /\ UserStep
  \/ UserReady /\ logout /\ UserStep
  \/ UserReady /\ \E id \in UserIds : getUser(id) /\ UserStep
  \/ UserReady /\ \E pair \in PasswordChanges : changePassword(pair[1], pair[2]) /\ UserStep
  \/ UserReady /\ \E email \in ResetEmails : requestPasswordReset(email) /\ UserStep
  \/ UserReady /\ \E id \in UserIds : updateUserStatus(id) /\ UserStep
  \/ UserReady /\ UserClearError /\ UserStep
  \/ UserReady /\ \E m \in BagToSet(userHttp), id \in UserIds, rev \in ProfileRevs :
       UserRespond(m, id, rev) /\ UserStep
  \/ UserReady /\ \E m \in BagToSet(userHttp), resp \in UserErrorResponses :
       UserFailWith(m, resp) /\ UserStep
  \/ UserReady /\ \E m \in BagToSet(userHttp) : UserDeliver(m) /\ UserStep
  \/ UserErrorTaken /\ UserStep

SpecUser == InitUsers /\ [][NextUser]_vars

\* the status machine from every status
InitAnyStatus ==
  /\ InitService /\ EmptyBackend /\ InitCalc
  /\ InitComponent /\ autoRefresh = FALSE /\ InitPoll /\ InitPassword
  /\ InitUserFresh
  /\ mStart \in OrderStatus /\ mCur = mStart /\ mLen = 0 /\ mReq = 0
  /\ mLast = [from |-> "none", target |-> "none", ok |-> FALSE]
  /\ mPending = EmptyBag

NextMachine ==
  \/ \E target \in OrderStatus : Transition(target) /\ MachineStep
  \/ \E target \in OrderStatus : TransitionApplied(target) /\ MachineStep

SpecMachine == InitAnyStatus /\ [][NextMachine]_vars

(***************************************************************************)
(* Properties.                                                             *)
(***************************************************************************)
\* the transition table as the specification lists it: the pairs
\* <<current, target>> of an allowed change
AllowedNext ==
  { <<"draft", "pending">>, <<"draft", "cancelled">>,
    <<"pending", "confirmed">>, <<"pending", "cancelled">>,
    <<"confirmed", "processing">>, <<"confirmed", "cancelled">>,
    <<"processing", "shipped">>, <<"processing", "cancelled">>,
    <<"shipped", "delivered">>, <<"delivered", "refunded">> }

\* the message of the invalid-transition error for current and target
InvalidTransition(current, target) ==
  <<"Cannot transition from ", current, " to ", target>>

\* the exact subtotal in units of 1/10000: the sum of
\* unitPrice (cents) * quantity * (100 - discount)
RECURSIVE ExactSubtotal(_)
ExactSubtotal(items) ==
  IF items = <<>> THEN 0
  ELSE Head(items).unitPrice * Head(items).quantity * (100 - Head(items).discount)
       + ExactSubtotal(Tail(items))

\* the integer nearest to x * n, halves up, for a number x >= 0 and an
\* integer 0 < n <= 100, computed without rounding in between
RoundTimes(x, n) ==
  IF x.e >= 0 THEN BToInt(BShl(x.m, x.e)) * n
  ELSE BToInt(BShr(BAdd(BMulSmall(x.m, 2 * n), BShl(<<1>>, -x.e)), 1 - x.e))

\* C1: updateOrderStatus on a listed order in status current passes the
\* client-side check, and sends its request, iff <<current, target>> is one
\* of the pairs of the transition table.
C1Check ==
  (last.op = "updateOrderStatus" /\ last.cur # "none")
    => (last.sent <=> <<last.cur, last.target>> \in AllowedNext)

C1Witness ==
  /\ last.op = "updateOrderStatus" /\ last.sent
  /\ last.cur = "shipped" /\ last.target = "delivered"

\* C2 (amended): updateOrderStatus on an order of the local list, in status
\* current there, with a target the table does not allow, sends nothing and
\* fails with the error "Cannot transition from <current> to <target>".
C2ListedRejected ==
  (/\ last.op = "updateOrderStatus" /\ last.cur # "none"
   /\ <<last.cur, last.target>> \notin AllowedNext)
    => /\ last.ev = "throw" /\ ~last.sent
       /\ last.msg = InvalidTransition(last.cur, last.target)

C2Witness ==
  /\ last.op = "updateOrderStatus" /\ last.ev = "throw"
  /\ last.cur = "shipped" /\ last.target = "cancelled"

\* C2 (as stated): for every order, listed or not, updateOrderStatus with a
\* target the table does not allow from the order's status fails with the
\* invalid-transition error carrying current and target.
C2EveryOrderRejected ==
  LET current == IF last.cur # "none" THEN last.cur ELSE srv[last.id]
  IN  (/\ last.op = "updateOrderStatus" /\ current # "none"
       /\ <<current, last.target>> \notin AllowedNext)
        => /\ last.ev = "throw" /\ ~last.sent
           /\ last.msg = InvalidTransition(current, last.target)

\* C3 (as stated, its second half): whichever operation or response a
\* step is, when it changes the status of an order of the local list the
\* change goes from a status to one of its allowed-next statuses.
C3StatusChangesValidated ==
  [][\A i \in 1..Len(orders) : \A j \in 1..Len(orders') :
       (orders[i].id = orders'[j].id /\ orders[i].status # orders'[j].status)
         => <<orders[i].status, orders'[j].status>> \in AllowedNext]_vars

\* C4 (amended): cancelOrder on an order of the local list sends its request
\* iff the listed status is draft, pending, confirmed or processing; in
\* shipped, delivered, cancelled or refunded it fails, sends nothing and
\* leaves every order as it is.  On an order that is not in the local list
\* it makes no check and sends the request.
C4CancelAccepted ==
  [][last'.op = "cancelOrder"
       => /\ last'.sent <=> last'.cur \in {"none", "draft", "pending", "confirmed", "processing"}
          /\ last'.sent => /\ http' # http
                           /\ UNCHANGED <<orders, currentOrder, srv>>
          /\ ~last'.sent => /\ last'.ev = "throw"
                            /\ UNCHANGED <<orders, currentOrder, http, srv>>]_vars

C4Witness ==
  /\ last.op = "cancelOrder" /\ last.ev = "throw" /\ last.cur = "cancelled"
  /\ Find(orders, last.id).status = "cancelled"

\* C4 (as stated): for every order, listed or not, cancelOrder sends its
\* request iff the order's status is draft, pending, confirmed or processing.
C4EveryOrderCancel ==
  LET current == IF last.cur # "none" THEN last.cur ELSE srv[last.id]
  IN  (last.op = "cancelOrder" /\ current # "none")
        => (last.sent <=> current \in {"draft", "pending", "confirmed", "processing"})

\* C5 (as stated): cancelOrder on a shipped or delivered order fails with
\* the error that updateOrderStatus(orderId, 'cancelled') gives for it.
C5SameError ==
  (/\ last.op = "cancelOrder" /\ last.ev = "throw"
   /\ last.cur \in {"shipped", "delivered"})
    => last.msg = UpdateOrderStatusError(last.id, "cancelled")

\* C6 (as stated): for a listed order in cancelled or refunded every status
\* change request fails, and the listed status never changes again.
C6Terminal ==
  [][/\ (last'.op \in {"updateOrderStatus", "cancelOrder"}
         /\ last'.cur \in {"cancelled", "refunded"}) => ~last'.sent
     /\ \A i \in 1..Len(orders) : \A j \in 1..Len(orders') :
          (orders[i].id = orders'[j].id /\ orders[i].status \in {"cancelled", "refunded"})
            => orders'[j].status = orders[i].status]_vars

\* C7: after one or more accepted transitions have been applied, in
\* whatever order their responses arrive and from whichever status the
\* order started in, the status is not draft.
C7NoWayBack == mLen >= 1 => mCur # "draft"

C7Witness == mStart = "draft" /\ mLen = 6 /\ mCur = "refunded"

\* C8: when the successful response of a createOrder is applied, one order
\* is appended to the local list, it becomes the current order, and it is
\* in draft.
C8CreatedInDraft ==
  [][\A m \in BagToSet(http) :
       (m.op = "createOrder" /\ m.code = 200 /\ Deliver(m))
         => /\ Len(orders') = Len(orders) + 1
            /\ orders'[Len(orders')].status = "draft"
            /\ currentOrder' = orders'[Len(orders')]]_vars

\* the backend started without orders: the order it holds, the one of the
\* local list, is the order a createOrder has added
C8Witness ==
  /\ last = NoEvent /\ http = EmptyBag /\ ~loading
  /\ srv[1] = "draft"
  /\ orders = <<Order(1, "draft")>> /\ currentOrder = Order(1, "draft")

\* C9 (as stated): the subtotal calculateOrderTotals returns is the sum of
\* unitPrice * quantity * (1 - discount/100) over the items: the number
\* that stands for the exact sum.
C9SubtotalExact ==
  calcResult # NoResult
    => calcResult.subtotal = FDiv(FFromInt(ExactSubtotal(calcItems)), 10000)

\* C10 (as stated): the tax returned is the returned subtotal times 0.08
\* rounded to the nearest cent, and the total is the sum of the returned
\* subtotal, tax and shipping rounded to the nearest cent.
C10RoundedToCents ==
  calcResult # NoResult
    => LET taxCents  == RoundTimes(calcResult.subtotal, 8)
           shipCents == IF calcResult.shipping = FZero THEN 0 ELSE 999
       IN  /\ calcResult.tax = Cents(taxCents)
           /\ calcResult.total
                = Cents(RoundTimes(calcResult.subtotal, 100) + taxCents + shipCents)

\* x >= n for a number x and a natural number n, by comparison of the
\* mantissa with n at the scale of x
AtLeast(x, n) ==
  IF x.m = <<>> THEN n = 0
  ELSE IF x.neg THEN FALSE
  ELSE IF x.e >= 0 THEN BCmp(BShl(x.m, x.e), BFromInt(n)) >= 0
  ELSE BCmp(x.m, BShl(BFromInt(n), -x.e)) >= 0

\* C11: whatever the items, the shipping calculateOrderTotals returns is 0
\* when the subtotal it returns is 100 or more, 100 itself included, and
\* 9.99 when the subtotal it returns is below 100.
C11ShippingThreshold ==
  calcResult # NoResult
    => calcResult.shipping = (IF AtLeast(calcResult.subtotal, 100)
                              THEN FZero ELSE Cents(999))

C11Witness ==
  /\ calcItems = <<Item(1, 10000, 0)>>
  /\ calcResult # NoResult
  /\ calcResult.subtotal = FFromInt(100) /\ calcResult.shipping = FZero

\* C12: for the empty item sequence calculateOrderTotals returns subtotal 0,
\* tax 0, shipping 9.99 and total 9.99.
C12EmptyItems ==
  (calcItems = <<>> /\ calcResult # NoResult)
    => calcResult = [subtotal |-> FZero, tax |-> FZero,
                     shipping |-> Cents(999), total |-> Cents(999)]

C12Witness == calcItems = <<>> /\ calcResult # NoResult /\ calcResult.total = Cents(999)

\* C14: what a calculateOrderTotals call returns is a result of four numbers,
\* whatever the items, never an error; the values are computed through without
\* clamping: when the exact sum of the line totals is negative (a discount
\* above 100 or a negative quantity on a priced item) the subtotal returned
\* is that negative sum to within 0.0001, and standard shipping is charged.
C14ComputedThrough ==
  /\ calcResult # NoResult
       => \A f \in {"subtotal", "tax", "shipping", "total"} :
            calcResult[f] # Null /\ DOMAIN calcResult[f] = {"neg", "m", "e"}
  /\ (calcResult # NoResult /\ ExactSubtotal(calcItems) < 0)
       => LET exact == -ExactSubtotal(calcItems)
              size  == FMul(FNeg(calcResult.subtotal), FFromInt(10000))
          IN  /\ calcResult.subtotal.neg
              /\ AtLeast(size, exact - 1) /\ ~AtLeast(size, exact + 2)
              /\ calcResult.shipping = Cents(999)

C14Witness ==
  /\ calcItems = <<Item(1, 1000, 150)>> /\ calcResult # NoResult
  /\ calcResult.subtotal = FNeg(FFromInt(5)) /\ calcResult.shipping = Cents(999)

\* C15: updateOrderStatus calls for an order are not arbitrated.  A call is
\* validated against the status the local list holds when it is made, and
\* against nothing else: requests already in flight do not count.  A call
\* that passes adds its request to the requests in flight and cancels none.
\* A response is applied by the pipe of its own request, and applying it
\* leaves the other responses to be applied; a success response replaces the
\* local entry of its order, so the entry is the response applied last.
C15NoArbitration ==
  [][/\ last'.op = "updateOrderStatus"
          => /\ last'.cur = Find(orders, last'.id).status
             /\ last'.sent <=> (\/ last'.cur = "none"
                                \/ <<last'.cur, last'.target>> \in AllowedNext)
             /\ last'.sent
                  => http' = http (+) SetToBag({Request("updateOrderStatus", last'.id,
                                                       last'.target, NoData)})
             /\ UNCHANGED orders
     /\ \A m \in BagToSet(http) :
          (m.op = "updateOrderStatus" /\ Deliver(m))
            => /\ http' = http (-) SetToBag({m})
               /\ Len(orders') = Len(orders)
               /\ \A i \in 1..Len(orders) :
                    orders'[i] = IF m.code = 200 /\ orders[i].id = m.id
                                 THEN m.body[1] ELSE orders[i]]_vars

\* two calls for the listed draft order were sent and answered, and both
\* responses wait to be applied
C15Witness ==
  /\ Find(orders, 1).status = "draft"
  /\ \E m1, m2 \in BagToSet(http) :
       /\ m1.target = "pending" /\ m2.target = "cancelled"
       /\ \A m \in {m1, m2} : /\ m.op = "updateOrderStatus" /\ m.id = 1
                               /\ m.phase = "response" /\ m.code = 200

\* C16: a tick of the auto-refresh timer and the response to a refresh
\* request, success or failure, leave filterStatus, sortOrder and
\* selectedOrderId as they are, whatever the user did before; no step other
\* than selectOrder, setFilter and toggleSortOrder changes them.
C16ViewKept ==
  [][/\ (\/ RefreshTick
          \/ \E m \in BagToSet(http) : m.sub = "refresh" /\ ComponentDeliver(m))
         => UNCHANGED viewVars
     /\ viewVars' # viewVars
         => \/ \E id \in ListedIds : selectOrder(id)
            \/ \E status \in FilterInputs : setFilter(status)
            \/ toggleSortOrder]_vars

\* the user has set all three, the load failed, and the orders shown are
\* those of a refresh response
C16Witness ==
  /\ filterStatus = "pending" /\ sortOrder = "asc" /\ selectedOrderId = 1
  /\ cError # Null /\ cOrders # <<>> /\ http = EmptyBag /\ refreshOn

\* C17 (as stated): with autoRefresh on, from ngOnInit until ngOnDestroy the
\* component goes on making a refresh request at every tick of the timer:
\* the subscription of setupAutoRefresh stays in place, refresh errors or not.
C17RefreshGoesOn ==
  (cPhase = "active" /\ autoRefresh) => refreshOn

\* the rules of a password in their order, each with the characters that
\* meet it and the error of a password that does not
PasswordRules ==
  << [met |-> UpperCase, error |-> "Password must contain at least one uppercase letter"],
     [met |-> LowerCase, error |-> "Password must contain at least one lowercase letter"],
     [met |-> Digit, error |-> "Password must contain at least one number"],
     [met |-> SpecialCharacter,
      error |-> "Password must contain at least one special character"] >>

\* rule r is met by the characters of p
Meets(p, r) == {p[i] : i \in 1..Len(p)} \cap PasswordRules[r].met # {}

\* C18: validatePassword(p) is valid iff p has 8 characters or more and an
\* uppercase letter, a lowercase letter, a digit and a special character;
\* a shorter p gets the length error, and a p of 8 characters or more gets
\* the error of the first rule it does not meet, in the order uppercase,
\* lowercase, digit, special character.
C18Password ==
  pwdResult # NoValidation
    => LET unmet == {r \in 1..4 : ~Meets(pwd, r)}
           first == CHOOSE r \in unmet : \A q \in unmet : r <= q
       IN  /\ pwdResult.valid <=> (Len(pwd) >= 8 /\ unmet = {})
           /\ pwdResult.valid => pwdResult.error = Null
           /\ Len(pwd) < 8
                => pwdResult.error = <<"Password must be at least 8 characters">>
           /\ (Len(pwd) >= 8 /\ unmet # {})
                => pwdResult.error = <<PasswordRules[first].error>>

\* a password of 8 characters or more without a lowercase letter and
\* without a digit is refused for its missing lowercase letter
C18Witness ==
  /\ Len(pwd) >= 8 /\ ~Meets(pwd, 2) /\ ~Meets(pwd, 3) /\ Meets(pwd, 1) /\ Meets(pwd, 4)
  /\ pwdResult = [valid |-> FALSE,
                  error |-> <<"Password must contain at least one lowercase letter">>]

\* C19 (as stated): a pollOrderStatus subscription makes at most 10
\* getOrder requests, whatever the times the responses take.
C19AtMostTenPolls == pollRequests <= PollLimit

\* C20 (amended): updateOrder on an order of the local list sends its PATCH
\* request iff the listed status is draft; in any other status it fails with
\* "Can only update orders in draft status", sends nothing and leaves every
\* order as it is.  On an order that is not in the local list it makes no
\* check and sends the request.
C20UpdateOnlyDraft ==
  [][last'.op = "updateOrder"
       => /\ last'.sent <=> last'.cur \in {"none", "draft"}
          /\ last'.sent => /\ http' # http
                           /\ UNCHANGED <<orders, currentOrder, srv>>
          /\ ~last'.sent => /\ last'.ev = "throw"
                            /\ last'.msg = <<"Can only update orders in draft status">>
                            /\ UNCHANGED <<orders, currentOrder, http, srv>>]_vars

C20Witness ==
  /\ last.op = "updateOrder" /\ last.ev = "throw" /\ last.cur = "pending"
  /\ Find(orders, last.id).status = "pending" /\ http = EmptyBag

\* C20 (as stated): for every order, listed or not, updateOrder sends its
\* PATCH request only if the order's status is draft, and in any other
\* status fails with "Can only update orders in draft status".
C20EveryOrderUpdate ==
  LET current == IF last.cur # "none" THEN last.cur ELSE srv[last.id]
  IN  (last.op = "updateOrder" /\ current \notin {"none", "draft"})
        => /\ ~last.sent /\ last.ev = "throw"
           /\ last.msg = <<"Can only update orders in draft status">>

\* what the dto has to meet for createOrder to send the request
DtoMeets(dto) ==
  /\ Len(dto.items) > 0
  /\ \A i \in 1..Len(dto.items) :
       dto.items[i].quantity > 0 /\ dto.items[i].unitPrice >= 0
  /\ dto.shippingAddress.street >= 5
  /\ dto.shippingAddress.city >= 2 /\ dto.shippingAddress.state >= 2
  /\ dto.shippingAddress.country >= 2 /\ dto.shippingAddress.postalCode >= 5

\* the validation errors that correspond to what the dto does not meet
DtoFaults(dto) ==
  (IF Len(dto.items) = 0 THEN {<<"Order must contain at least one item">>} ELSE {})
  \cup (IF \E i \in 1..Len(dto.items) : dto.items[i].quantity <= 0
        THEN {<<"Item quantity must be positive">>} ELSE {})
  \cup (IF \E i \in 1..Len(dto.items) : dto.items[i].unitPrice < 0
        THEN {<<"Item price cannot be negative">>} ELSE {})
  \cup (IF dto.shippingAddress.street < 5 \/ dto.shippingAddress.city < 2
           \/ dto.shippingAddress.state < 2 \/ dto.shippingAddress.country < 2
           \/ dto.shippingAddress.postalCode < 5
        THEN {<<"Invalid shipping address">>} ELSE {})

\* C21: a createOrder call sends the POST request, with the items of the
\* dto, exactly when the item list is not empty, every item has a quantity
\* above 0 and a price of at least 0, and the address has a street and a
\* postal code of at least 5 characters and a city, state and country of at
\* least 2; otherwise the call fails with a validation error that corresponds
\* to a fault of the dto, sends nothing, and leaves orders, currentOrder,
\* isLoading and error as they were.
C21CreateValidated ==
  [][\A dto \in CreateDtos :
       createOrder(dto)
         => IF DtoMeets(dto)
            THEN /\ last'.ev = "call" /\ last'.sent
                 /\ BagCardinality(http') = BagCardinality(http) + 1
                 /\ \E m \in BagToSet(http') :
                      /\ m.op = "createOrder" /\ m.phase = "request"
                      /\ m.data.items = dto.items
                      /\ CopiesIn(m, http') = CopiesIn(m, http) + 1
            ELSE /\ last'.ev = "throw" /\ last'.op = "createOrder"
                 /\ last'.msg \in DtoFaults(dto)
                 /\ UNCHANGED <<orders, currentOrder, loading, error, http>>]_vars

\* a dto with a short street was refused after an order had been created,
\* and the order is still listed
C21Witness ==
  /\ last.ev = "throw" /\ last.op = "createOrder"
  /\ last.msg = <<"Invalid shipping address">>
  /\ orders = <<Order(1, "draft")>> /\ currentOrder = Order(1, "draft")
  /\ http = EmptyBag

\* the message by the status of the response alone
MessageByStatus(m) ==
  IF m.code = 400 THEN (IF m.emsg \notin {Null, <<"">>} THEN m.emsg ELSE <<"Invalid request">>)
  ELSE IF m.code = 404 THEN <<"Order not found">>
  ELSE IF m.code = 409 THEN <<"Order conflict - please refresh">>
  ELSE IF m.code = 500 THEN <<"Server error. Please try again later.">>
  ELSE <<"An unexpected error occurred">>

\* the step hands the failed response m to the pipe of its operation
FailureHandled(m) ==
  /\ m.phase = "response" /\ m.code # 200
  /\ http' = http (-) SetToBag({m})

\* C22 as stated: when the request of an operation fails, error becomes the
\* message chosen by the status of the response, isLoading becomes false,
\* the subscriber gets an error with the same message, and orders and
\* currentOrder stay as they were.
C22MessageByStatus ==
  [][\A m \in BagToSet(http) :
       FailureHandled(m)
         => /\ error' # Null /\ error' = MessageByStatus(m)
            /\ loading' = FALSE
            /\ last'.ev = "error" /\ last'.msg = error'
            /\ UNCHANGED <<orders, currentOrder>>]_vars

\* C22: when the request of an operation fails, error becomes a non-null
\* message: the message of the error body when that body is an ErrorEvent,
\* whatever the status, and otherwise the message chosen by the status (400:
\* the server's message, 'Invalid request' without one; 404, 409 and 500:
\* a fixed message each; any other status: 'An unexpected error occurred');
\* isLoading becomes false, the subscriber gets an error with the same
\* message, and orders and currentOrder stay as they were.
C22ErrorHandled ==
  [][\A m \in BagToSet(http) :
       FailureHandled(m)
         => /\ error' # Null
            /\ error' = IF m.event THEN m.emsg ELSE MessageByStatus(m)
            /\ loading' = FALSE
            /\ last'.ev = "error" /\ last'.msg = error'
            /\ UNCHANGED <<orders, currentOrder>>]_vars

\* a request failed with status 0 and an ErrorEvent, with an order listed:
\* error is the message of the event
C22Witness ==
  /\ last.ev = "error" /\ last.msg = <<"Network error">>
  /\ error = <<"Network error">> /\ ~loading
  /\ orders = <<Order(1, "draft")>> /\ currentOrder = Order(1, "draft")

\* the createOrder and getUserOrders requests that are issued and not yet
\* answered
LoadingRequests ==
  {m \in BagToSet(http) : m.op \in {"createOrder", "getUserOrders"} /\ m.phase = "request"}

\* C23: isLoading is true whenever a createOrder or getUserOrders request is
\* issued and not yet answered, also when several such requests overlap and
\* one of them has been answered.
C23LoadingWhileInFlight == LoadingRequests # {} => loading

\* C24: after a getUserOrders call has set isLoading to true, isLoading
\* becomes false again when the backend answers what it is asked, also when
\* the caller has unsubscribed before the answer, as OrderListComponent does
\* when it is destroyed.
C24LoadingEnds == loading ~> ~loading

\* C25: the session of UserService is consistent in every reachable state:
\* currentUser is not null exactly when the token is not null, whatever the
\* order of login, register, updateProfile, deactivateAccount and logout
\* calls and of the responses to them.
C25SessionConsistent == (currentUser # NoUser) <=> (token # Null)

====
